---- MODULE Spec2Model ----
(***************************************************************************)
(* A model of the buffered find-groups engine of go-geographic-autogroup-  *)
(* images: the location matchers, the time-key alignment, the per-camera   *)
(* group buffers, the buffer pool and FindGroups.FindNext; with them the   *)
(* groups reducer, the location time index, and the unbuffered FindNext of *)
(* find_groups.go.                                                         *)
(*                                                                         *)
(* Conventions.  A time.Time is its Unix epoch in whole seconds; the zero  *)
(* time.Time{} is the integer ZeroTime, which lies outside every timestamp *)
(* the model draws.  A latitude/longitude pair is a "place".  A            *)
(* GeographicRecord is identified by its position in the flattened image   *)
(* series (its Filepath); a location TimeEntry carries one record, whose   *)
(* coordinates are the entry's place.  Go slices are sequences; indices    *)
(* stored in locationIndex are Go's 0-based indices.  A nearest-city key   *)
(* "<source>,<id>" is the pair <<source, id>> and a location-timekey       *)
(* "<city key>,<epoch>" is the triple <<source, id, epoch>>.  Diagnostic   *)
(* comments on records are not modelled.                                   *)
(***************************************************************************)
EXTENDS Integers, Sequences, FiniteSets, TLC

VARIABLES
    locationTs,            \* FindGroups.locationTs
    imageTs,               \* FindGroups.imageTs
    records,               \* the GeographicRecords the image series refers to
    unassignedRecords,     \* FindGroups.unassignedRecords
    currentImagePosition,  \* FindGroups.currentImagePosition
    nearestCityIndex,      \* FindGroups.nearestCityIndex (its key set)
    locationMatcherFn,     \* FindGroups.locationMatcherFn (the strategy)
    bufferedGroups,        \* FindGroups.bufferedGroups.groupsByCameraModel
    returned,              \* history: the groups FindNext has returned
    lastErr,               \* history: the err of the last FindNext call
    matcherAtLoad,         \* history: the strategy the images were read with
    probe,                 \* the last direct call of a location matcher
    alignment,             \* the last direct call of getAlignedTime
    reducer,               \* GroupsReducer.Reduce: its locals and position
    reduceStep,            \* history: the last pass of the loop of Reduce
    database,              \* the location database file
    indexCall,             \* history: the last call of GetLocationTimeIndex
    poolStep,              \* history: the last push or pop on the pool
    currentGroup,          \* FindGroups.currentGroup of the unbuffered FindNext
    currentGroupKey        \* FindGroups.currentGroupKey of the unbuffered FindNext

vars == <<locationTs, imageTs, records, unassignedRecords, currentImagePosition,
          nearestCityIndex, locationMatcherFn, bufferedGroups, returned,
          lastErr, matcherAtLoad, probe, alignment, reducer, reduceStep,
          database, indexCall, poolStep, currentGroup, currentGroupKey>>

-----------------------------------------------------------------------------
(* Program constants *)

TimeKeyAlignment == 600

roundingWindowDuration == 600

maxProximityDuration == 43200

trivialGroupMaximumSize == 20

ZeroTime == 0 - 1000000

SkipReasonNoNearLocationRecord == "no matching/near location record"

SkipReasonNoNearCity == "no near city"

LocationMatchStrategyBestGuess == "best guess"

LocationMatchStrategySparseData == "sparse data"

ErrNoMoreGroups == "no more groups"

ErrNoNearLocationRecord == "no location record was near-enough"

ErrNoNearestCity == "no nearest city"

ErrPanic == "panic"

-----------------------------------------------------------------------------
(* Bounds of the model *)

MaxImages == 4

MaxLocations == 2

\* The image timestamps: one before 1970 and one after, in different
\* 10-minute buckets.
Times == {0 - 900, 300}

\* An image series holds the records of at most two camera models: the empty
\* model (no EXIF model) beside a named one, or two named ones.
CameraSets == {{"", "m1"}, {"m1", "m2"}}

Places == {"pX", "pY"}

NoPlace == "none"

ProbeTimes == {0, 300, 600, 900, 1200, 1500, 43200, 43500, 44100}

\* NewFindGroups is called on image series of up to MaxNewImages images.
MaxNewImages == 2

\* getAlignedTime is called on every epoch from -MaxEpoch to MaxEpoch.
MaxEpoch == 650

\* Reduce is fed up to MaxGroups groups: trivial ones, one of exactly
\* trivialGroupMaximumSize records and one of a record more; on one UTC day
\* or the next; of two cameras and two cities.
MaxGroups == 3

GroupSizes == {1, trivialGroupMaximumSize, trivialGroupMaximumSize + 1}

GroupTimeKeys == {0, 600, 86400}

GroupCameras == {"m1", "m2"}

GroupCities == {"X", "Y"}

\* The data sources of GetLocationTimeIndex hold up to MaxSourceFiles files
\* of one of these location records each.
MaxSourceFiles == 2

\* The pool is pushed up to MaxPushes images, of two cameras.
MaxPushes == 4

PoolCameras == {"m1", "m2"}

\* The engine run over three time buckets: at most MaxCursorImages images,
\* taken at the times CursorTimes.
MaxCursorImages == 3

CursorTimes == {0 - 900, 300, 900}

SourceRecords == {[Time |-> 0, place |-> "pX"], [Time |-> 600, place |-> "pY"]}

-----------------------------------------------------------------------------
(* Go arithmetic and the external collaborators *)

\* Go's % truncates toward zero: the remainder has the sign of the dividend.
GoRem(a, b) == IF a >= 0 THEN a % b ELSE 0 - ((0 - a) % b)

ZeroTimeEntry == [Time |-> ZeroTime, place |-> NoPlace]

IsZero(te) == te.Time = ZeroTime

\* timeindex.SearchTimes: the 0-based position of the first entry whose time
\* is not before t, or the length of the series.
SearchTimes(ts, t) == Cardinality({i \in 1..Len(ts) : ts[i].Time < t})

\* geoattractorindex.CityIndex.Nearest on the coordinates of a place.
Nearest(place) ==
    CASE place = "pX" -> [err |-> "nil", sourceName |-> "GeoNames", Id |-> "X"]
      [] place = "pY" -> [err |-> "nil", sourceName |-> "GeoNames", Id |-> "Y"]
      [] OTHER -> [err |-> ErrNoNearestCity, sourceName |-> "", Id |-> ""]

-----------------------------------------------------------------------------
(* Location matchers *)

\* takeNearest with the comparison made inclusive: a tie goes to the previous
\* entry.
takeNearest_TieToPrevious(sincePrevious, untilNext, previousTe, nextTe) ==
    IF sincePrevious <= untilNext THEN previousTe ELSE nextTe

\* "They're both fine. Take the nearest."
takeNearest(sincePrevious, untilNext, previousTe, nextTe) ==
    IF sincePrevious < untilNext THEN previousTe ELSE nextTe

findLocationByTimeBestGuess(locationIndexTs, imageTime) ==
    LET n == Len(locationIndexTs)
        nearestLocationPosition == SearchTimes(locationIndexTs, imageTime)
        pastEnd == nearestLocationPosition >= n
        nearestLocationTe ==
            IF pastEnd THEN ZeroTimeEntry
            ELSE locationIndexTs[nearestLocationPosition + 1]
    IN  IF ~pastEnd /\ nearestLocationTe.Time = imageTime
        THEN [err |-> "nil", te |-> nearestLocationTe]
        ELSE
        LET previousLocationTe ==
                IF pastEnd THEN locationIndexTs[n]
                ELSE IF nearestLocationPosition > 0
                     THEN locationIndexTs[nearestLocationPosition]
                     ELSE ZeroTimeEntry
            nextLocationTe == nearestLocationTe
            durationSincePrevious ==
                IF ~IsZero(previousLocationTe)
                THEN imageTime - previousLocationTe.Time ELSE 0
            durationUntilNext ==
                IF ~IsZero(nextLocationTe)
                THEN nextLocationTe.Time - imageTime ELSE 0
            matched1 ==
                IF durationSincePrevious # 0
                THEN IF durationSincePrevious <= roundingWindowDuration
                        /\ (durationUntilNext = 0
                            \/ durationUntilNext > roundingWindowDuration)
                     THEN previousLocationTe
                     ELSE IF durationSincePrevious <= roundingWindowDuration
                             /\ durationUntilNext # 0
                             /\ durationUntilNext <= roundingWindowDuration
                          THEN takeNearest(durationSincePrevious,
                                           durationUntilNext,
                                           previousLocationTe, nextLocationTe)
                          ELSE ZeroTimeEntry
                ELSE ZeroTimeEntry
            matchedTe ==
                IF durationUntilNext # 0 /\ IsZero(matched1)
                   /\ durationUntilNext < roundingWindowDuration
                THEN nextLocationTe
                ELSE matched1
        IN  IF matchedTe.Time = ZeroTime
            THEN [err |-> ErrNoNearLocationRecord, te |-> ZeroTimeEntry]
            ELSE [err |-> "nil", te |-> matchedTe]

\* The sparse matcher without its test for an exact match.
sparseLocations_NoExactMatch(locationIndexTs, imageTime) ==
    LET n == Len(locationIndexTs)
        nearestLocationPosition == SearchTimes(locationIndexTs, imageTime)
    IN  IF nearestLocationPosition >= n
        THEN IF imageTime - locationIndexTs[n].Time <= maxProximityDuration
             THEN [err |-> "nil", te |-> locationIndexTs[n]]
             ELSE [err |-> ErrNoNearLocationRecord, te |-> ZeroTimeEntry]
        ELSE IF nearestLocationPosition > 0
        THEN [err |-> "nil", te |-> locationIndexTs[nearestLocationPosition]]
        ELSE IF locationIndexTs[1].Time - imageTime <= maxProximityDuration
        THEN [err |-> "nil", te |-> locationIndexTs[1]]
        ELSE [err |-> ErrNoNearLocationRecord, te |-> ZeroTimeEntry]

\* The sparse matcher with the 12-hour bound applied to the preceding entry
\* in the middle of the series too.
sparseLocations_BoundedEverywhere(locationIndexTs, imageTime) ==
    LET n == Len(locationIndexTs)
        nearestLocationPosition == SearchTimes(locationIndexTs, imageTime)
    IN  IF nearestLocationPosition < n
           /\ locationIndexTs[nearestLocationPosition + 1].Time = imageTime
        THEN [err |-> "nil", te |-> locationIndexTs[nearestLocationPosition + 1]]
        ELSE IF nearestLocationPosition > 0
        THEN IF imageTime - locationIndexTs[nearestLocationPosition].Time
                    <= maxProximityDuration
             THEN [err |-> "nil", te |-> locationIndexTs[nearestLocationPosition]]
             ELSE [err |-> ErrNoNearLocationRecord, te |-> ZeroTimeEntry]
        ELSE IF locationIndexTs[1].Time - imageTime <= maxProximityDuration
        THEN [err |-> "nil", te |-> locationIndexTs[1]]
        ELSE [err |-> ErrNoNearLocationRecord, te |-> ZeroTimeEntry]

findLocationByTimeWithSparseLocations(locationIndexTs, imageTime) ==
    LET n == Len(locationIndexTs)
        nearestLocationPosition == SearchTimes(locationIndexTs, imageTime)
    IN  IF nearestLocationPosition >= n
        THEN LET lastTe == locationIndexTs[n]
             IN  IF imageTime - lastTe.Time <= maxProximityDuration
                 THEN [err |-> "nil", te |-> lastTe]
                 ELSE [err |-> ErrNoNearLocationRecord, te |-> ZeroTimeEntry]
        ELSE
        LET nearestLocationTe == locationIndexTs[nearestLocationPosition + 1]
        IN  IF nearestLocationTe.Time = imageTime
            THEN [err |-> "nil", te |-> nearestLocationTe]
            ELSE IF nearestLocationPosition > 0
            THEN [err |-> "nil", te |-> locationIndexTs[nearestLocationPosition]]
            ELSE IF nearestLocationTe.Time - imageTime <= maxProximityDuration
            THEN [err |-> "nil", te |-> nearestLocationTe]
            ELSE [err |-> ErrNoNearLocationRecord, te |-> ZeroTimeEntry]

\* The call fg.locationMatcherFn(imageTe) under the configured strategy.
locationMatcher(strategy, locationIndexTs, imageTime) ==
    IF strategy = LocationMatchStrategySparseData
    THEN findLocationByTimeWithSparseLocations(locationIndexTs, imageTime)
    ELSE findLocationByTimeBestGuess(locationIndexTs, imageTime)

-----------------------------------------------------------------------------
(* Time-key alignment *)

\* getAlignedEpoch rounding up to the next boundary instead of down.
getAlignedEpoch_RoundingUp(epoch) ==
    epoch + (TimeKeyAlignment - GoRem(epoch, TimeKeyAlignment))

getAlignedEpoch(epoch) == epoch - GoRem(epoch, TimeKeyAlignment)

\* Times are whole Unix seconds, so t.Unix() and time.Unix(epoch, 0) are the
\* identity here.
getAlignedTime(t) == getAlignedEpoch(t)

getGeographicRecordTimeKey(gr) == getAlignedEpoch(gr.Timestamp)

-----------------------------------------------------------------------------
(* bufferedImage and bufferedGroup *)

EmptyMap == [k \in {} |-> 0]

MapPut(m, k, v) == [x \in DOMAIN m \cup {k} |-> IF x = k THEN v ELSE m[x]]

LocationTimekey(bi) == Append(bi.nearestCityKey, bi.effectiveTimekey)

\* newBufferedImage that always takes the time-key of the record's own
\* timestamp.
newBufferedImage_OwnTimeKey(nearestCityKey, gr, effectiveTimekey) ==
    [effectiveTimekey |-> getGeographicRecordTimeKey(gr),
     gr |-> gr.Filepath,
     nearestCityKey |-> nearestCityKey]

newBufferedImage(nearestCityKey, gr, effectiveTimekey) ==
    [effectiveTimekey |-> IF effectiveTimekey = ZeroTime
                          THEN getGeographicRecordTimeKey(gr)
                          ELSE effectiveTimekey,
     gr |-> gr.Filepath,
     nearestCityKey |-> nearestCityKey]

\* haveCompleteGroup that counts the images.
haveCompleteGroup_ByCount(bg) == Len(bg.images) >= 2

haveCompleteGroup(bg) == bg.firstTimeKey # bg.lastTimeKey

havePartialGroup(bg) == bg.firstTimeKey = bg.lastTimeKey

\* isEmpty that reports every buffer as empty.
isEmpty_Always(bg) == Len(bg.images) >= 0

isEmpty(bg) ==
    Len(bg.images) = 0 \/ bg.firstTimeKey = ZeroTime

\* The loop of updateLocationIndex from Go index i on.  The membership test
\* looks the image's city key up in a map keyed by location-timekeys.
RECURSIVE updateLocationIndexFrom(_, _, _)
updateLocationIndexFrom(images, i, locationIndex) ==
    IF i >= Len(images) THEN locationIndex
    ELSE LET bi == images[i + 1]
         IN  IF bi.nearestCityKey \notin DOMAIN locationIndex
             THEN updateLocationIndexFrom(images, i + 1,
                      MapPut(locationIndex, LocationTimekey(bi), i))
             ELSE updateLocationIndexFrom(images, i + 1, locationIndex)

updateLocationIndex(images) == updateLocationIndexFrom(images, 0, EmptyMap)

\* initBufferedGroup that leaves lastTimeKey at the zero time.
initBufferedGroup_ZeroLastTimeKey(nearestCityKey, initialGr) ==
    LET initialBi == newBufferedImage(nearestCityKey, initialGr, ZeroTime)
    IN  [firstTimeKey |-> initialBi.effectiveTimekey,
         lastTimeKey |-> ZeroTime,
         images |-> <<initialBi>>,
         locationIndex |-> EmptyMap]

initBufferedGroup(nearestCityKey, initialGr) ==
    LET initialBi == newBufferedImage(nearestCityKey, initialGr, ZeroTime)
    IN  [firstTimeKey |-> initialBi.effectiveTimekey,
         lastTimeKey |-> initialBi.effectiveTimekey,
         images |-> <<initialBi>>,
         locationIndex |-> EmptyMap]

\* groupRecords with each record prepended instead of appended.
groupRecords_Prepended(popped) ==
    [i \in 1..Len(popped) |-> popped[Len(popped) + 1 - i].gr]

\* The group a pop hands back: the records of the popped images, appended in
\* buffer order.
groupRecords(popped) == [i \in 1..Len(popped) |-> popped[i].gr]

\* completePrefixLen that stops only where the time-key changes.
RECURSIVE completePrefixLen_ByTimeKeyOnly(_, _)
completePrefixLen_ByTimeKeyOnly(images, k) ==
    IF k < Len(images)
       /\ images[k + 1].effectiveTimekey = images[1].effectiveTimekey
    THEN completePrefixLen_ByTimeKeyOnly(images, k + 1)
    ELSE k

\* The length of the prefix popCompleteGroup takes: the images whose city and
\* effective time-key equal the first image's.
RECURSIVE completePrefixLen(_, _)
completePrefixLen(images, k) ==
    IF k < Len(images)
       /\ images[k + 1].nearestCityKey = images[1].nearestCityKey
       /\ images[k + 1].effectiveTimekey = images[1].effectiveTimekey
    THEN completePrefixLen(images, k + 1)
    ELSE k

\* popCompleteGroup: the new buffer, the returned city key and group, the
\* popped buffered images, and whether the call panicked.
popCompleteGroup(bg) ==
    IF Len(bg.images) = 0 \/ ~haveCompleteGroup(bg)
    THEN [panic |-> TRUE, bg |-> bg, nearestCityKey |-> <<>>, group |-> <<>>,
          popped |-> <<>>]
    ELSE
    LET len_ == completePrefixLen(bg.images, 0)
        rest == SubSeq(bg.images, len_ + 1, Len(bg.images))
        popped == SubSeq(bg.images, 1, len_)
    IN  [panic |-> len_ = 0,
         bg |-> [firstTimeKey |-> IF Len(rest) = 0 THEN ZeroTime
                                  ELSE rest[1].effectiveTimekey,
                 lastTimeKey |-> bg.lastTimeKey,
                 images |-> rest,
                 locationIndex |-> updateLocationIndex(rest)],
         nearestCityKey |-> bg.images[1].nearestCityKey,
         group |-> groupRecords(popped),
         popped |-> popped]

popPartialGroup(bg) ==
    IF Len(bg.images) = 0 \/ haveCompleteGroup(bg) \/ ~havePartialGroup(bg)
    THEN [panic |-> TRUE, bg |-> bg, nearestCityKey |-> <<>>, group |-> <<>>,
          popped |-> <<>>]
    ELSE [panic |-> FALSE,
          bg |-> [firstTimeKey |-> ZeroTime,
                  lastTimeKey |-> ZeroTime,
                  images |-> <<>>,
                  locationIndex |-> updateLocationIndex(<<>>)],
          nearestCityKey |-> bg.images[1].nearestCityKey,
          group |-> groupRecords(bg.images),
          popped |-> bg.images]

\* bufferedGroup.pushImage: the new buffer and whether a sanity check
\* panicked (the buffer is then left as it was at the panic).
bufferedGroup_pushImage(bg, nearestCityKey, gr) ==
    LET lastBi == bg.images[Len(bg.images)]
        effectiveTimekey == IF lastBi.nearestCityKey = nearestCityKey
                            THEN bg.lastTimeKey ELSE ZeroTime
        bi == newBufferedImage(nearestCityKey, gr, effectiveTimekey)
        images1 == Append(bg.images, bi)
        currentTimekey == bi.effectiveTimekey
        bg1 == [bg EXCEPT !.images = images1, !.lastTimeKey = currentTimekey]
        locationTimekey == LocationTimekey(bi)
        len_ == Len(images1)
        found == locationTimekey \in DOMAIN bg.locationIndex
    IN  IF found /\ len_ > 2
        THEN
        LET index == bg.locationIndex[locationTimekey]
        IN  IF index + 1 > len_ THEN [panic |-> TRUE, bg |-> bg1]
            ELSE
            LET firstEncounteredBi == images1[index + 1]
                previousBi == images1[len_ - 1]
            IN  IF firstEncounteredBi.nearestCityKey # nearestCityKey
                   \/ firstEncounteredBi.effectiveTimekey # currentTimekey
                THEN [panic |-> TRUE, bg |-> bg1]
                ELSE IF previousBi.nearestCityKey # nearestCityKey
                        /\ previousBi.effectiveTimekey = currentTimekey
                THEN
                LET start_index == index + 1
                    bad == {k \in (start_index + 1)..len_ :
                               images1[k].effectiveTimekey # currentTimekey}
                    stop == IF bad = {} THEN len_ + 1
                            ELSE CHOOSE k \in bad : \A j \in bad : k <= j
                    smoothed ==
                        [k \in 1..len_ |->
                            IF k >= start_index + 1 /\ k < stop
                               /\ images1[k].nearestCityKey # nearestCityKey
                            THEN [images1[k] EXCEPT
                                      !.nearestCityKey = nearestCityKey]
                            ELSE images1[k]]
                IN  IF bad # {}
                    THEN [panic |-> TRUE,
                          bg |-> [bg1 EXCEPT !.images = smoothed]]
                    ELSE [panic |-> FALSE,
                          bg |-> [bg1 EXCEPT
                                     !.images = smoothed,
                                     !.locationIndex =
                                         updateLocationIndex(smoothed)]]
                ELSE [panic |-> FALSE, bg |-> bg1]
        ELSE IF ~found
        THEN [panic |-> FALSE,
              bg |-> [bg1 EXCEPT !.locationIndex =
                         MapPut(bg.locationIndex, locationTimekey, len_ - 1)]]
        ELSE [panic |-> FALSE, bg |-> bg1]

-----------------------------------------------------------------------------
(* iterativeGroupBuffers: the pool, a map from camera model to buffer *)

MapRemove(m, k) == [x \in DOMAIN m \ {k} |-> m[x]]

CompleteModels(groups) ==
    {m \in DOMAIN groups : haveCompleteGroup(groups[m])}

PartialModels(groups) ==
    {m \in DOMAIN groups : havePartialGroup(groups[m])}

\* The values haveAnyCompleteGroups can return: the map is ranged over in an
\* unspecified order and the first model with a complete group is returned,
\* "" when there is none.
haveAnyCompleteGroups(groups) ==
    IF CompleteModels(groups) = {} THEN {""} ELSE CompleteModels(groups)

haveAnyPartialGroups(groups) ==
    IF PartialModels(groups) = {} THEN {""} ELSE PartialModels(groups)

PoolPanic(groups) ==
    [panic |-> TRUE, groups |-> groups, timeKey |-> ZeroTime,
     nearestCityKey |-> <<>>, cameraModel |-> "", images |-> <<>>,
     popped |-> <<>>]

\* The outcomes of popFirstCompleteGroup, one per model it can elect.
popFirstCompleteGroup(groups) ==
    {IF electedCameraModel = ""
     THEN PoolPanic(groups)
     ELSE LET electedBg == groups[electedCameraModel]
              r == popCompleteGroup(electedBg)
          IN  IF r.panic THEN PoolPanic(groups)
              ELSE [panic |-> FALSE,
                    groups |-> IF isEmpty(r.bg)
                               THEN MapRemove(groups, electedCameraModel)
                               ELSE [groups EXCEPT ![electedCameraModel] = r.bg],
                    timeKey |-> electedBg.firstTimeKey,
                    nearestCityKey |-> r.nearestCityKey,
                    cameraModel |-> electedCameraModel,
                    images |-> r.group,
                    popped |-> r.popped]
     : electedCameraModel \in haveAnyCompleteGroups(groups)}

\* The outcomes of popFirstPartialGroup.
popFirstPartialGroup(groups) ==
    UNION {
        IF cameraModelWithComplete # ""
        THEN {PoolPanic(groups)}
        ELSE {IF electedCameraModel = ""
              THEN PoolPanic(groups)
              ELSE LET electedBg == groups[electedCameraModel]
                       r == popPartialGroup(electedBg)
                   IN  IF r.panic \/ ~isEmpty(r.bg) THEN PoolPanic(groups)
                       ELSE [panic |-> FALSE,
                             groups |-> MapRemove(groups, electedCameraModel),
                             timeKey |-> electedBg.firstTimeKey,
                             nearestCityKey |-> r.nearestCityKey,
                             cameraModel |-> electedCameraModel,
                             images |-> r.group,
                             popped |-> r.popped]
              : electedCameraModel \in haveAnyPartialGroups(groups)}
        : cameraModelWithComplete \in haveAnyCompleteGroups(groups)}

\* pushImage that pushes into whatever buffer exists, whatever camera model
\* it is keyed by.
pushImage_IgnoringCameraModel(groups, nearestCityKey, gr) ==
    IF DOMAIN groups # {}
    THEN LET cameraModel == CHOOSE m \in DOMAIN groups : TRUE
             r == bufferedGroup_pushImage(groups[cameraModel],
                                          nearestCityKey, gr)
         IN  [panic |-> r.panic,
              groups |-> [groups EXCEPT ![cameraModel] = r.bg]]
    ELSE [panic |-> FALSE,
          groups |-> MapPut(groups, gr.CameraModel,
                            initBufferedGroup(nearestCityKey, gr))]

\* pushImage that gives the pushed city to every entry of the buffer.
pushImage_SmoothingEverything(groups, nearestCityKey, gr) ==
    LET cameraModel == gr.CameraModel
    IN  IF cameraModel \in DOMAIN groups
        THEN LET r == bufferedGroup_pushImage(groups[cameraModel],
                                              nearestCityKey, gr)
             IN  [panic |-> r.panic,
                  groups |->
                      [groups EXCEPT ![cameraModel] =
                          [r.bg EXCEPT !.images =
                              [i \in 1..Len(r.bg.images) |->
                                  [r.bg.images[i] EXCEPT
                                      !.nearestCityKey = nearestCityKey]]]]]
        ELSE [panic |-> FALSE,
              groups |-> MapPut(groups, cameraModel,
                                initBufferedGroup(nearestCityKey, gr))]

iterativeGroupBuffers_pushImage(groups, nearestCityKey, gr) ==
    LET cameraModel == gr.CameraModel
    IN  IF cameraModel \in DOMAIN groups
        THEN LET r == bufferedGroup_pushImage(groups[cameraModel],
                                              nearestCityKey, gr)
             IN  [panic |-> r.panic,
                  groups |-> [groups EXCEPT ![cameraModel] = r.bg]]
        ELSE [panic |-> FALSE,
              groups |-> MapPut(groups, cameraModel,
                                initBufferedGroup(nearestCityKey, gr))]

-----------------------------------------------------------------------------
(* FindGroups *)

\* The FindGroups object as one value.
fgState ==
    [locationTs |-> locationTs, imageTs |-> imageTs, records |-> records,
     unassignedRecords |-> unassignedRecords,
     currentImagePosition |-> currentImagePosition,
     nearestCityIndex |-> nearestCityIndex,
     locationMatcherFn |-> locationMatcherFn,
     bufferedGroups |-> bufferedGroups]

\* addUnassigned whose append is lost.
addUnassigned_Lost(fg, gr, reason) == fg

addUnassigned(fg, gr, reason) ==
    [fg EXCEPT !.unassignedRecords =
        Append(@, [Geographic |-> gr, Reason |-> reason])]

\* The registry update whose assignment replaces the registry.
rememberCity_Replacing(fg, nearestCityKey) ==
    [fg EXCEPT !.nearestCityIndex = {nearestCityKey}]

\* fg.nearestCityIndex[nearestCityKey] = cr
rememberCity(fg, nearestCityKey) ==
    [fg EXCEPT !.nearestCityIndex = @ \cup {nearestCityKey}]

\* One pass of the item loop of getCurrentPositionImages, for the record
\* imageGr of the entry at time imageTime: the new engine state and, when the
\* record is not skipped, its currentImageRecord.
getCurrentPositionImagesItem(fg, imageGr, imageTime) ==
    LET needsLocation == ~fg.records[imageGr].HasGeographic
        m == locationMatcher(fg.locationMatcherFn, fg.locationTs, imageTime)
    IN  IF needsLocation /\ m.err # "nil"
        THEN [fg |-> addUnassigned(fg, imageGr, SkipReasonNoNearLocationRecord),
              skipped |-> TRUE, cir |-> <<>>]
        ELSE
        LET fg1 == IF needsLocation
                   THEN [fg EXCEPT !.records[imageGr].place = m.te.place]
                   ELSE fg
            c == Nearest(fg1.records[imageGr].place)
        IN  IF c.err # "nil"
            THEN [fg |-> addUnassigned(fg1, imageGr, SkipReasonNoNearCity),
                  skipped |-> TRUE, cir |-> <<>>]
            ELSE
            LET nearestCityKey == <<c.sourceName, c.Id>>
            IN  [fg |-> rememberCity(fg1, nearestCityKey),
                 skipped |-> FALSE,
                 cir |-> [GeographicRecord |-> imageGr,
                          NearestCityKey |-> nearestCityKey]]

RECURSIVE getCurrentPositionImagesFrom(_, _, _, _)
getCurrentPositionImagesFrom(fg, imageTe, k, outputRecords) ==
    IF k > Len(imageTe.Items)
    THEN [fg |-> fg, outputRecords |-> outputRecords]
    ELSE LET r == getCurrentPositionImagesItem(fg, imageTe.Items[k], imageTe.Time)
         IN  getCurrentPositionImagesFrom(r.fg, imageTe, k + 1,
                 IF r.skipped THEN outputRecords
                 ELSE Append(outputRecords, r.cir))

getCurrentPositionImages(fg) ==
    getCurrentPositionImagesFrom(fg, fg.imageTs[fg.currentImagePosition + 1],
                                 1, <<>>)

\* The inner loop of FindNext: push the records of one entry onto the pool.
RECURSIVE pushCurrentImageRecords(_, _, _, _)
pushCurrentImageRecords(groups, recs, currentImageRecords, k) ==
    IF k > Len(currentImageRecords)
    THEN [panic |-> FALSE, groups |-> groups]
    ELSE LET cir == currentImageRecords[k]
             r == iterativeGroupBuffers_pushImage(
                      groups, cir.NearestCityKey, recs[cir.GeographicRecord])
         IN  IF r.panic THEN r
             ELSE pushCurrentImageRecords(r.groups, recs, currentImageRecords,
                                          k + 1)

\* The loading loop of FindNext, from the current position on: loadImages
\* reads the entry at the cursor (c is what getCurrentPositionImages hands
\* back), loadImagesPush pushes its records onto the pool, and loadImagesStep
\* (p is the result of the pushes) moves the cursor on.
RECURSIVE loadImages(_)
loadImagesStep(fg, p) ==
    IF p.panic
    THEN [panic |-> TRUE, fg |-> [fg EXCEPT !.bufferedGroups = p.groups]]
    ELSE loadImages([fg EXCEPT !.bufferedGroups = p.groups,
                               !.currentImagePosition = @ + 1])

loadImagesPush(c) ==
    loadImagesStep(c.fg, pushCurrentImageRecords(c.fg.bufferedGroups,
                                                 c.fg.records,
                                                 c.outputRecords, 1))

loadImages(fg) ==
    IF fg.currentImagePosition >= Len(fg.imageTs)
    THEN [panic |-> FALSE, fg |-> fg]
    ELSE loadImagesPush(getCurrentPositionImages(fg))

\* What a FindNext call hands back.  kind, position and completeBefore are
\* history: how the group was popped, the cursor at the return, and the
\* models whose buffer held a complete group just before the pop.
Panicked(fg) ==
    [fg |-> fg, err |-> ErrPanic, group |-> <<>>]

Finished(fg, pop, kind) ==
    IF pop.panic THEN Panicked(fg)
    ELSE [fg |-> [fg EXCEPT !.bufferedGroups = pop.groups],
          err |-> "nil",
          group |-> [TimeKey |-> pop.timeKey,
                     NearestCityKey |-> pop.nearestCityKey,
                     CameraModel |-> pop.cameraModel,
                     images |-> pop.images,
                     popped |-> pop.popped,
                     kind |-> kind,
                     position |-> fg.currentImagePosition,
                     completeBefore |-> CompleteModels(fg.bufferedGroups)]]

\* FindNext after its loading loop: l is what the loop left.
FindNextAfterLoad(l) ==
    IF l.panic THEN {Panicked(l.fg)}
    ELSE UNION {
        IF second # ""
        THEN {Finished(l.fg, pop, "complete") :
                 pop \in popFirstCompleteGroup(l.fg.bufferedGroups)}
        ELSE UNION {
            IF third # ""
            THEN {Finished(l.fg, pop, "partial") :
                     pop \in popFirstPartialGroup(l.fg.bufferedGroups)}
            ELSE IF l.fg.currentImagePosition < Len(l.fg.imageTs)
            THEN {Panicked(l.fg)}
            ELSE {[fg |-> l.fg, err |-> ErrNoMoreGroups, group |-> <<>>]}
            : third \in haveAnyPartialGroups(l.fg.bufferedGroups)}
        : second \in haveAnyCompleteGroups(l.fg.bufferedGroups)}

\* The outcomes of one FindNext call on the engine state fg.
FindNextOutcomes(fg) ==
    UNION {
        IF first # ""
        THEN {Finished(fg, pop, "complete") :
                 pop \in popFirstCompleteGroup(fg.bufferedGroups)}
        ELSE FindNextAfterLoad(loadImages(fg))
        : first \in haveAnyCompleteGroups(fg.bufferedGroups)}

-----------------------------------------------------------------------------
(* The inputs *)

GeoOptions == Places \cup {NoPlace}

RECURSIVE SortedTimes(_)
SortedTimes(S) ==
    IF S = {} THEN <<>>
    ELSE LET t == CHOOSE x \in S : \A y \in S : x <= y
         IN  <<t>> \o SortedTimes(S \ {t})

\* geoindex.TimeIndex.Series: one TimeEntry per distinct timestamp, in
\* increasing order, with the records of that timestamp in insertion order.
Series(recs) ==
    LET ids == [i \in 1..Len(recs) |-> i]
        times == SortedTimes({recs[i].Timestamp : i \in 1..Len(recs)})
    IN  [e \in 1..Len(times) |->
            [Time |-> times[e],
             Items |-> SelectSeq(ids, LAMBDA i : recs[i].Timestamp = times[e])]]

\* Image records in chronological order.
ImageRecords(n, Cameras) ==
    {[i \in 1..n |-> [Filepath |-> i,
                      Timestamp |-> in[i].Timestamp,
                      HasGeographic |-> in[i].place # NoPlace,
                      place |-> in[i].place,
                      CameraModel |-> in[i].CameraModel]] :
        in \in {f \in [1..n -> [Timestamp : Times, CameraModel : Cameras,
                                place : GeoOptions]] :
                   \A i \in 1..(n - 1) : f[i].Timestamp <= f[i + 1].Timestamp}}

\* The location series of the engine runs.  Best guess finds no location
\* for the first image time and one with no city near it for the second;
\* sparse data finds the first entry for both.
MainLocationTs ==
    <<[Time |-> 0 - 1600, place |-> "pY"], [Time |-> 400, place |-> "pNowhere"]>>

NoReducer ==
    [state |-> "idle", finishedGroups |-> EmptyMap, lastGroup |-> EmptyMap,
     merged |-> 0]

NoReduceStep ==
    [called |-> FALSE, before |-> NoReducer,
     groupKey |-> [TimeKey |-> ZeroTime, NearestCityKey |-> <<>>,
                   CameraModel |-> ""],
     records |-> <<>>]

NoDatabase ==
    [state |-> "missing", series |-> <<>>, sourceSha1 |-> <<>>,
     checksumOk |-> TRUE]

NoPaths == [given |-> FALSE, files |-> <<>>]

NoIndexCall ==
    [called |-> FALSE, paths |-> NoPaths, before |-> NoDatabase,
     ti |-> <<>>, dbAlreadyExists |-> FALSE, dbUpdated |-> FALSE,
     err |-> "nil",
     previous |-> [called |-> FALSE, paths |-> NoPaths, err |-> "nil",
                   dbAlreadyExists |-> FALSE, dbUpdated |-> FALSE]]

NoPoolStep ==
    [op |-> "none", before |-> EmptyMap, cameraModel |-> "",
     nearestCityKey |-> <<>>, gr |-> 0, timestamp |-> 0, images |-> <<>>,
     panic |-> FALSE]

NoAlignment == [called |-> FALSE, t |-> 0, aligned |-> 0, realigned |-> 0]

NoProbe == [strategy |-> "", imageTime |-> ZeroTime, err |-> "", te |-> ZeroTimeEntry]

-----------------------------------------------------------------------------
(* The engine: NewFindGroups, SetLocationMatchStrategy, FindNext *)

Init ==
    /\ locationTs = MainLocationTs
    /\ \E n \in 0..MaxImages, Cameras \in CameraSets :
           records \in ImageRecords(n, Cameras)
    /\ imageTs = Series(records)
    /\ unassignedRecords = <<>>
    /\ currentImagePosition = 0
    /\ nearestCityIndex = {}
    /\ locationMatcherFn = LocationMatchStrategyBestGuess
    /\ bufferedGroups = EmptyMap
    /\ returned = <<>>
    /\ lastErr = "nil"
    /\ matcherAtLoad = ""
    /\ probe = NoProbe
    /\ alignment = NoAlignment
    /\ reducer = NoReducer
    /\ reduceStep = NoReduceStep
    /\ database = NoDatabase
    /\ indexCall = NoIndexCall
    /\ poolStep = NoPoolStep
    /\ currentGroup = EmptyMap
    /\ currentGroupKey = EmptyMap

SetLocationMatchStrategy ==
    /\ \E strategy \in {LocationMatchStrategyBestGuess,
                        LocationMatchStrategySparseData} :
           /\ strategy # locationMatcherFn
           /\ locationMatcherFn' = strategy
    /\ UNCHANGED <<locationTs, imageTs, records, unassignedRecords,
                   currentImagePosition, nearestCityIndex, bufferedGroups,
                   returned, lastErr, matcherAtLoad, probe, alignment,
                   reducer, reduceStep, database, indexCall, poolStep,
                   currentGroup, currentGroupKey>>

\* A FindNext call that ends with the outcome o: what it leaves in the
\* engine, and the history of the run.
FindNextReturns(o) ==
    /\ records' = o.fg.records
    /\ unassignedRecords' = o.fg.unassignedRecords
    /\ currentImagePosition' = o.fg.currentImagePosition
    /\ nearestCityIndex' = o.fg.nearestCityIndex
    /\ bufferedGroups' = o.fg.bufferedGroups
    /\ lastErr' = o.err
    /\ returned' = IF o.err = "nil" THEN Append(returned, o.group)
                   ELSE returned
    /\ matcherAtLoad' =
           IF o.fg.currentImagePosition # currentImagePosition
           THEN locationMatcherFn
           ELSE matcherAtLoad
    /\ UNCHANGED <<locationTs, imageTs, locationMatcherFn, probe, alignment,
                   database, indexCall, poolStep, currentGroup,
                   currentGroupKey>>

FindNext ==
    /\ \E o \in FindNextOutcomes(fgState) : FindNextReturns(o)
    /\ UNCHANGED <<reducer, reduceStep>>

Next == FindNext \/ SetLocationMatchStrategy

Spec == Init /\ [][Next]_vars

-----------------------------------------------------------------------------
(* The engine on images that span three time buckets *)

\* Image records in chronological order, at the times CursorTimes.
CursorImageRecords(n) ==
    {[i \in 1..n |-> [Filepath |-> i,
                      Timestamp |-> in[i].Timestamp,
                      HasGeographic |-> in[i].place # NoPlace,
                      place |-> in[i].place,
                      CameraModel |-> in[i].CameraModel]] :
        in \in {f \in [1..n -> [Timestamp : CursorTimes,
                                CameraModel : PoolCameras,
                                place : GeoOptions]] :
                   \A i \in 1..(n - 1) : f[i].Timestamp <= f[i + 1].Timestamp}}

InitCursor ==
    /\ locationTs = MainLocationTs
    /\ \E n \in 0..MaxCursorImages : records \in CursorImageRecords(n)
    /\ imageTs = Series(records)
    /\ unassignedRecords = <<>>
    /\ currentImagePosition = 0
    /\ nearestCityIndex = {}
    /\ locationMatcherFn = LocationMatchStrategyBestGuess
    /\ bufferedGroups = EmptyMap
    /\ returned = <<>>
    /\ lastErr = "nil"
    /\ matcherAtLoad = ""
    /\ probe = NoProbe
    /\ alignment = NoAlignment
    /\ reducer = NoReducer
    /\ reduceStep = NoReduceStep
    /\ database = NoDatabase
    /\ indexCall = NoIndexCall
    /\ poolStep = NoPoolStep
    /\ currentGroup = EmptyMap
    /\ currentGroupKey = EmptyMap

SpecCursor == InitCursor /\ [][Next]_vars

-----------------------------------------------------------------------------
(* The unbuffered FindNext of find_groups.go, which tracks one current group
   and one current group key per camera model *)

\* GroupKey{}
ZeroGroupKey == [TimeKey |-> ZeroTime, NearestCityKey |-> <<>>, CameraModel |-> ""]

\* The FindGroups object of the unbuffered variant as one value.
fgUnbuffered ==
    [locationTs |-> locationTs, imageTs |-> imageTs, records |-> records,
     unassignedRecords |-> unassignedRecords,
     currentImagePosition |-> currentImagePosition,
     nearestCityIndex |-> nearestCityIndex,
     locationMatcherFn |-> locationMatcherFn,
     currentGroup |-> currentGroup,
     currentGroupKey |-> currentGroupKey]

\* fg.currentGroupKey[cameraModel], the zero GroupKey when absent.
trackedGroupKey(fg, cameraModel) ==
    IF cameraModel \in DOMAIN fg.currentGroupKey
    THEN fg.currentGroupKey[cameraModel]
    ELSE ZeroGroupKey

\* flushCurrentGroup: the engine afterwards, the finished key and group,
\* and whether the group is nil (nothing was buffered for the camera).
flushCurrentGroup(fg, nextGroupKey) ==
    LET cameraModel == nextGroupKey.CameraModel
    IN  [fg |-> [fg EXCEPT
                    !.currentGroup = MapRemove(fg.currentGroup, cameraModel),
                    !.currentGroupKey = MapPut(fg.currentGroupKey, cameraModel,
                                               nextGroupKey)],
         finishedGroupKey |-> trackedGroupKey(fg, cameraModel),
         finishedGroup |-> IF cameraModel \in DOMAIN fg.currentGroup
                           THEN fg.currentGroup[cameraModel]
                           ELSE <<>>,
         isNil |-> cameraModel \notin DOMAIN fg.currentGroup]

\* The append to fg.currentGroup[cameraModel], or its creation.
appendToCurrentGroup(fg, cameraModel, imageGr) ==
    [fg EXCEPT !.currentGroup =
        MapPut(fg.currentGroup, cameraModel,
               IF cameraModel \in DOMAIN fg.currentGroup
               THEN Append(fg.currentGroup[cameraModel], imageGr)
               ELSE <<imageGr>>)]

\* What the loops of FindNext hand on when no group is finished.
NotFinished(fg) ==
    [fg |-> fg, finished |-> FALSE, finishedGroupKey |-> ZeroGroupKey,
     finishedGroup |-> <<>>]

\* The group key of a kept record: the tracked key's time-key is reused when
\* the tracked group is of the same city.
unbufferedGroupKey(currentGroupKey_, cameraModel, nearestCityKey, imageTime) ==
    [TimeKey |-> IF currentGroupKey_.TimeKey # ZeroTime
                    /\ currentGroupKey_.NearestCityKey = nearestCityKey
                 THEN currentGroupKey_.TimeKey
                 ELSE getAlignedEpoch(imageTime),
     NearestCityKey |-> nearestCityKey,
     CameraModel |-> cameraModel]

\* The branch taken when the key gk differs from the tracked one: f is what
\* flushCurrentGroup handed back and pushed the engine after the record was
\* put into the new current group.
unbufferedBoundary(f, pushed) ==
    IF f.isNil THEN NotFinished(pushed)
    ELSE [fg |-> [pushed EXCEPT !.currentImagePosition = @ + 1],
          finished |-> TRUE,
          finishedGroupKey |-> f.finishedGroupKey,
          finishedGroup |-> f.finishedGroup]

\* The comparison of the key gk of the record with the key tracked for its
\* camera model.
unbufferedTrack(fg, imageGr, cameraModel, gk) ==
    IF cameraModel \notin DOMAIN fg.currentGroupKey
    THEN NotFinished(
             [fg EXCEPT
                 !.currentGroupKey = MapPut(fg.currentGroupKey, cameraModel,
                                            gk),
                 !.currentGroup = MapPut(fg.currentGroup, cameraModel,
                                         <<imageGr>>)])
    ELSE IF gk # fg.currentGroupKey[cameraModel]
    THEN unbufferedBoundary(
             flushCurrentGroup(fg, gk),
             appendToCurrentGroup(flushCurrentGroup(fg, gk).fg, cameraModel,
                                  imageGr))
    ELSE NotFinished(appendToCurrentGroup(fg, cameraModel, imageGr))

\* The item loop's body after the location and city of the record were
\* looked up (r is the result of that part, which has the same statements
\* as getCurrentPositionImages).
unbufferedKept(r, imageGr, imageTime) ==
    IF r.skipped THEN NotFinished(r.fg)
    ELSE unbufferedTrack(
             r.fg, imageGr, r.fg.records[imageGr].CameraModel,
             unbufferedGroupKey(
                 trackedGroupKey(r.fg, r.fg.records[imageGr].CameraModel),
                 r.fg.records[imageGr].CameraModel,
                 r.cir.NearestCityKey, imageTime))

\* One pass of the item loop.
unbufferedItem(fg, imageGr, imageTime) ==
    unbufferedKept(getCurrentPositionImagesItem(fg, imageGr, imageTime),
                   imageGr, imageTime)

\* The item loop over the entry imageTe, from item k on; it ends at the
\* first item that finishes a group (r is the result of item k).
RECURSIVE unbufferedItems(_, _, _)
unbufferedItemsNext(r, imageTe, k) ==
    IF r.finished THEN r ELSE unbufferedItems(r.fg, imageTe, k + 1)

unbufferedItems(fg, imageTe, k) ==
    IF k > Len(imageTe.Items) THEN NotFinished(fg)
    ELSE unbufferedItemsNext(
             unbufferedItem(fg, imageTe.Items[k], imageTe.Time), imageTe, k)

\* The loop over the image series from the cursor on (r is the result of
\* the item loop on the entry at the cursor).
RECURSIVE unbufferedEntries(_)
unbufferedEntriesNext(r) ==
    IF r.finished THEN r
    ELSE unbufferedEntries([r.fg EXCEPT !.currentImagePosition = @ + 1])

unbufferedEntries(fg) ==
    IF fg.currentImagePosition >= Len(fg.imageTs) THEN NotFinished(fg)
    ELSE unbufferedEntriesNext(
             unbufferedItems(fg, fg.imageTs[fg.currentImagePosition + 1], 1))

\* The closing loop, which flushes the group of the first camera model the
\* map range visits: one outcome per camera model, no_more_groups when
\* nothing is buffered.
unbufferedFlush(fg) ==
    IF DOMAIN fg.currentGroup = {}
    THEN {[fg |-> fg, err |-> ErrNoMoreGroups, finishedGroupKey |-> ZeroGroupKey,
           finishedGroup |-> <<>>]}
    ELSE {LET f == flushCurrentGroup(fg, fg.currentGroupKey[cameraModel])
          IN  [fg |-> f.fg, err |-> "nil",
               finishedGroupKey |-> f.finishedGroupKey,
               finishedGroup |-> f.finishedGroup]
          : cameraModel \in DOMAIN fg.currentGroup}

\* The outcomes of one call of the unbuffered FindNext.
unbufferedAfterLoop(r) ==
    IF r.finished
    THEN {[fg |-> r.fg, err |-> "nil",
           finishedGroupKey |-> r.finishedGroupKey,
           finishedGroup |-> r.finishedGroup]}
    ELSE unbufferedFlush(r.fg)

FindNextUnbufferedOutcomes(fg) ==
    IF fg.currentImagePosition >= Len(fg.imageTs) THEN unbufferedFlush(fg)
    ELSE unbufferedAfterLoop(unbufferedEntries(fg))

FindNextUnbuffered ==
    /\ \E o \in FindNextUnbufferedOutcomes(fgUnbuffered) :
           /\ records' = o.fg.records
           /\ unassignedRecords' = o.fg.unassignedRecords
           /\ currentImagePosition' = o.fg.currentImagePosition
           /\ nearestCityIndex' = o.fg.nearestCityIndex
           /\ currentGroup' = o.fg.currentGroup
           /\ currentGroupKey' = o.fg.currentGroupKey
           /\ lastErr' = o.err
           /\ returned' =
                  IF o.err = "nil"
                  THEN Append(returned,
                              [TimeKey |-> o.finishedGroupKey.TimeKey,
                               NearestCityKey |->
                                   o.finishedGroupKey.NearestCityKey,
                               CameraModel |-> o.finishedGroupKey.CameraModel,
                               images |-> o.finishedGroup])
                  ELSE returned
    /\ UNCHANGED <<locationTs, imageTs, locationMatcherFn, bufferedGroups,
                   matcherAtLoad, probe, alignment, reducer, reduceStep,
                   database, indexCall, poolStep>>

NextUnbuffered == FindNextUnbuffered \/ SetLocationMatchStrategy

SpecUnbuffered == InitCursor /\ [][NextUnbuffered]_vars

-----------------------------------------------------------------------------
(* The matchers called directly, on any location series *)

\* Location series: strictly increasing in time, at least one entry.
LocationSeries ==
    UNION {{l \in [1..n -> [Time : ProbeTimes, place : {"pX"}]] :
               \A i \in 1..(n - 1) : l[i].Time < l[i + 1].Time} :
           n \in 1..MaxLocations}

InitMatch ==
    /\ locationTs \in LocationSeries
    /\ records = <<>>
    /\ imageTs = <<>>
    /\ unassignedRecords = <<>>
    /\ currentImagePosition = 0
    /\ nearestCityIndex = {}
    /\ locationMatcherFn = LocationMatchStrategyBestGuess
    /\ bufferedGroups = EmptyMap
    /\ returned = <<>>
    /\ lastErr = "nil"
    /\ matcherAtLoad = ""
    /\ probe = NoProbe
    /\ alignment = NoAlignment
    /\ reducer = NoReducer
    /\ reduceStep = NoReduceStep
    /\ database = NoDatabase
    /\ indexCall = NoIndexCall
    /\ poolStep = NoPoolStep
    /\ currentGroup = EmptyMap
    /\ currentGroupKey = EmptyMap

ProbeBestGuess ==
    /\ \E imageTime \in ProbeTimes :
           LET r == findLocationByTimeBestGuess(locationTs, imageTime)
           IN  probe' = [strategy |-> LocationMatchStrategyBestGuess,
                         imageTime |-> imageTime, err |-> r.err, te |-> r.te]
    /\ UNCHANGED <<locationTs, imageTs, records, unassignedRecords,
                   currentImagePosition, nearestCityIndex, locationMatcherFn,
                   bufferedGroups, returned, lastErr, matcherAtLoad,
                   alignment, reducer, reduceStep, database, indexCall,
                   poolStep, currentGroup, currentGroupKey>>

ProbeSparseData ==
    /\ \E imageTime \in ProbeTimes :
           LET r == findLocationByTimeWithSparseLocations(locationTs, imageTime)
           IN  probe' = [strategy |-> LocationMatchStrategySparseData,
                         imageTime |-> imageTime, err |-> r.err, te |-> r.te]
    /\ UNCHANGED <<locationTs, imageTs, records, unassignedRecords,
                   currentImagePosition, nearestCityIndex, locationMatcherFn,
                   bufferedGroups, returned, lastErr, matcherAtLoad,
                   alignment, reducer, reduceStep, database, indexCall,
                   poolStep, currentGroup, currentGroupKey>>

NextMatch == ProbeBestGuess \/ ProbeSparseData

SpecMatch == InitMatch /\ [][NextMatch]_vars

-----------------------------------------------------------------------------
(* GroupsReducer.Reduce, one iteration of its loop at a time *)

\* The UTC day of a time: two times differ in year, month or day exactly
\* when they differ in it.
DayOf(t) == t \div 86400

collectedGroup(groupKey, groupRecords_) ==
    [GroupKey |-> groupKey, Records |-> groupRecords_]

\* append(finishedGroups[cameraModel], cg), or the one-element list when
\* the model has none yet.
finishGroup(finishedGroups, cameraModel, cg) ==
    IF cameraModel \in DOMAIN finishedGroups
    THEN [finishedGroups EXCEPT ![cameraModel] = Append(@, cg)]
    ELSE MapPut(finishedGroups, cameraModel, <<cg>>)

\* reduceTracked that never merges: the tracked group is always emitted.
reduceTracked_NeverMerging(r, lastCg, groupKey, groupRecords_) ==
    [r EXCEPT
        !.finishedGroups = finishGroup(@, lastCg.GroupKey.CameraModel, lastCg),
        !.lastGroup[groupKey.CameraModel] =
            collectedGroup(groupKey, groupRecords_)]

\* reduceTracked for which a group of trivialGroupMaximumSize is large.
reduceTracked_TwentyIsLarge(r, lastCg, groupKey, groupRecords_) ==
    IF DayOf(lastCg.GroupKey.TimeKey) # DayOf(groupKey.TimeKey)
       \/ (Len(lastCg.Records) >= trivialGroupMaximumSize
           /\ Len(groupRecords_) >= trivialGroupMaximumSize)
    THEN [r EXCEPT
             !.finishedGroups =
                 finishGroup(@, lastCg.GroupKey.CameraModel, lastCg),
             !.lastGroup[groupKey.CameraModel] =
                 collectedGroup(groupKey, groupRecords_)]
    ELSE IF Len(lastCg.Records) >= trivialGroupMaximumSize
    THEN [r EXCEPT
             !.lastGroup[groupKey.CameraModel].Records = @ \o groupRecords_,
             !.merged = @ + 1]
    ELSE [r EXCEPT
             !.lastGroup[groupKey.CameraModel] =
                 collectedGroup(groupKey, lastCg.Records \o groupRecords_),
             !.merged = @ + 1]

\* reduceTracked whose merge keeps the key of the tracked group always.
reduceTracked_KeepingLastKey(r, lastCg, groupKey, groupRecords_) ==
    IF DayOf(lastCg.GroupKey.TimeKey) # DayOf(groupKey.TimeKey)
       \/ (Len(lastCg.Records) > trivialGroupMaximumSize
           /\ Len(groupRecords_) > trivialGroupMaximumSize)
    THEN [r EXCEPT
             !.finishedGroups =
                 finishGroup(@, lastCg.GroupKey.CameraModel, lastCg),
             !.lastGroup[groupKey.CameraModel] =
                 collectedGroup(groupKey, groupRecords_)]
    ELSE [r EXCEPT
             !.lastGroup[groupKey.CameraModel].Records = @ \o groupRecords_,
             !.merged = @ + 1]

\* The body of the loop for a group FindNext returned, with a group lastCg
\* already tracked for its camera model.
reduceTracked(r, lastCg, groupKey, groupRecords_) ==
    IF DayOf(lastCg.GroupKey.TimeKey) # DayOf(groupKey.TimeKey)
       \/ (Len(lastCg.Records) > trivialGroupMaximumSize
           /\ Len(groupRecords_) > trivialGroupMaximumSize)
    THEN [r EXCEPT
             !.finishedGroups =
                 finishGroup(@, lastCg.GroupKey.CameraModel, lastCg),
             !.lastGroup[groupKey.CameraModel] =
                 collectedGroup(groupKey, groupRecords_)]
    ELSE IF Len(lastCg.Records) > trivialGroupMaximumSize
    THEN [r EXCEPT
             !.lastGroup[groupKey.CameraModel].Records = @ \o groupRecords_,
             !.merged = @ + 1]
    ELSE [r EXCEPT
             !.lastGroup[groupKey.CameraModel] =
                 collectedGroup(groupKey, lastCg.Records \o groupRecords_),
             !.merged = @ + 1]

\* The body of the loop for a group FindNext returned.
reduceGroup(r, groupKey, groupRecords_) ==
    IF groupKey.CameraModel \notin DOMAIN r.lastGroup
    THEN [r EXCEPT !.lastGroup =
             MapPut(@, groupKey.CameraModel,
                    collectedGroup(groupKey, groupRecords_))]
    ELSE reduceTracked(r, r.lastGroup[groupKey.CameraModel], groupKey,
                       groupRecords_)

\* The flush after the loop: every tracked group becomes a finished one.
RECURSIVE reduceFlush(_, _)
reduceFlush(finishedGroups, lastGroup) ==
    IF DOMAIN lastGroup = {} THEN finishedGroups
    ELSE LET cameraModel == CHOOSE m \in DOMAIN lastGroup : TRUE
         IN  reduceFlush(finishGroup(finishedGroups, cameraModel,
                                     lastGroup[cameraModel]),
                         MapRemove(lastGroup, cameraModel))

\* One pass of the loop of Reduce on the outcome o of its FindNext call; the
\* pass that meets no_more_groups leaves the loop, flushes and returns, and
\* any other err makes Reduce panic.
reduceIteration(r, o) ==
    IF o.err = "nil"
    THEN [reduceGroup(r, [TimeKey |-> o.group.TimeKey,
                          NearestCityKey |-> o.group.NearestCityKey,
                          CameraModel |-> o.group.CameraModel],
                      o.group.images)
             EXCEPT !.state = "running"]
    ELSE IF o.err = ErrNoMoreGroups
    THEN [r EXCEPT !.state = "done",
                   !.finishedGroups = reduceFlush(@, r.lastGroup)]
    ELSE [r EXCEPT !.state = "panicked"]

ReduceIteration ==
    /\ reducer.state \in {"idle", "running"}
    /\ \E o \in FindNextOutcomes(fgState) :
           /\ FindNextReturns(o)
           /\ reducer' = reduceIteration(reducer, o)
    /\ UNCHANGED reduceStep

\* The caller may set the strategy before it calls Reduce.
SetStrategyBeforeReduce ==
    /\ reducer.state = "idle"
    /\ SetLocationMatchStrategy

NextReduce == ReduceIteration \/ SetStrategyBeforeReduce

SpecReduce == Init /\ [][NextReduce]_vars

-----------------------------------------------------------------------------
(* Reduce on an engine whose groups have any size: FindNext is the source of
   the groups, and what it returns is drawn from the sizes, days, cameras and
   cities below, in the order of their time keys, with fresh records *)

SuppliedIds == IF returned = <<>> THEN 0
               ELSE LET g == returned[Len(returned)]
                    IN  g.images[Len(g.images)]

SuppliedTimeKey == IF returned = <<>> THEN 0
                   ELSE returned[Len(returned)].TimeKey

suppliedGroup(timeKey, city, cameraModel, size) ==
    [TimeKey |-> timeKey, NearestCityKey |-> <<"GeoNames", city>>,
     CameraModel |-> cameraModel,
     images |-> [i \in 1..size |-> SuppliedIds + i]]

InitReduceGroups ==
    /\ locationTs = MainLocationTs
    /\ records = <<>>
    /\ imageTs = <<>>
    /\ unassignedRecords = <<>>
    /\ currentImagePosition = 0
    /\ nearestCityIndex = {}
    /\ locationMatcherFn = LocationMatchStrategyBestGuess
    /\ bufferedGroups = EmptyMap
    /\ returned = <<>>
    /\ lastErr = "nil"
    /\ matcherAtLoad = ""
    /\ probe = NoProbe
    /\ alignment = NoAlignment
    /\ reducer = NoReducer
    /\ reduceStep = NoReduceStep
    /\ database = NoDatabase
    /\ indexCall = NoIndexCall
    /\ poolStep = NoPoolStep
    /\ currentGroup = EmptyMap
    /\ currentGroupKey = EmptyMap

\* A pass of the loop in which FindNext returns the group g.
reducePass(g) ==
    /\ reducer' = reduceIteration(reducer, [err |-> "nil", group |-> g])
    /\ returned' = Append(returned, g)
    /\ lastErr' = "nil"
    /\ reduceStep' =
           [called |-> TRUE, before |-> reducer,
            groupKey |-> [TimeKey |-> g.TimeKey,
                          NearestCityKey |-> g.NearestCityKey,
                          CameraModel |-> g.CameraModel],
            records |-> g.images]

ReduceGroup ==
    /\ reducer.state \in {"idle", "running"}
    /\ Len(returned) < MaxGroups
    /\ \E timeKey \in GroupTimeKeys, city \in GroupCities,
          cameraModel \in GroupCameras, size \in GroupSizes :
           /\ timeKey >= SuppliedTimeKey
           /\ reducePass(suppliedGroup(timeKey, city, cameraModel, size))
    /\ UNCHANGED <<locationTs, imageTs, records, unassignedRecords,
                   currentImagePosition, nearestCityIndex, locationMatcherFn,
                   bufferedGroups, matcherAtLoad, probe, alignment,
                   database, indexCall, poolStep, currentGroup,
                   currentGroupKey>>

\* The pass in which FindNext returns no_more_groups.
ReduceNoMoreGroups ==
    /\ reducer.state \in {"idle", "running"}
    /\ reducer' = reduceIteration(reducer, [err |-> ErrNoMoreGroups,
                                            group |-> <<>>])
    /\ lastErr' = ErrNoMoreGroups
    /\ UNCHANGED <<locationTs, imageTs, records, unassignedRecords,
                   currentImagePosition, nearestCityIndex, locationMatcherFn,
                   bufferedGroups, returned, matcherAtLoad, probe, alignment,
                   reduceStep, database, indexCall, poolStep, currentGroup,
                   currentGroupKey>>

NextReduceGroups == ReduceGroup \/ ReduceNoMoreGroups

SpecReduceGroups == InitReduceGroups /\ [][NextReduceGroups]_vars

-----------------------------------------------------------------------------
(* GetLocationTimeIndex and the location database *)

ErrLocationTimeIndexChecksumFail == "location time-index checksum failure"

ErrNoSourcesNoDatabase ==
    "either location data-paths or an existing location database must be given"

ErrDatabaseUnreadable == "location database could not be read"

ErrIndexOutOfRange == "runtime error: index out of range"

RECURSIVE Flatten(_)
Flatten(ss) == IF ss = <<>> THEN <<>> ELSE Head(ss) \o Flatten(Tail(ss))

\* The SHA1 of the contents of the visited files, in the order of their
\* sorted paths: equal for equal content streams.
GetSha1ForPaths(paths) == <<"sha1", Flatten(paths.files)>>

\* The location records a GeographicCollector reads from the paths, as
\* the series of the TimeIndex: one TimeEntry per distinct time, in
\* increasing order, with the places of that time in reading order.
readLocationSeries(paths) ==
    LET recs == Flatten(paths.files)
        times == SortedTimes({recs[i].Time : i \in 1..Len(recs)})
    IN  [e \in 1..Len(times) |->
            [Time |-> times[e],
             Items |-> [k \in 1..Len(SelectSeq(recs,
                                   LAMBDA r : r.Time = times[e])) |->
                           SelectSeq(recs,
                               LAMBDA r : r.Time = times[e])[k].place]]]

\* The gob stream of a TimeSlice, and the TimeSlice decoded from it.
gobEncode(ts) == [i \in 1..Len(ts) |-> <<ts[i].Time, ts[i].Items>>]

gobDecode(stream) ==
    [i \in 1..Len(stream) |-> [Time |-> stream[i][1], Items |-> stream[i][2]]]

\* What updater.Write leaves in the stream: the one series with its footer.
writtenDatabase(ts, filesSha1) ==
    [state |-> "series", series |-> gobEncode(ts), sourceSha1 |-> filesSha1,
     checksumOk |-> TRUE]

\* The file after os.OpenFile with O_CREATE.
openedDatabase(db) ==
    IF db.state = "missing" THEN [db EXCEPT !.state = "empty"] ELSE db

locationIndexFailure(db, err) ==
    [ti |-> <<>>, dbAlreadyExists |-> FALSE, dbUpdated |-> FALSE, err |-> err,
     database |-> db]

\* updateLocationDatabase that writes nothing.
updateLocationDatabase_NotWriting(paths, db, dbAlreadyExists) ==
    LET ts == readLocationSeries(paths)
    IN  IF Len(ts) = 0
        THEN locationIndexFailure(db, ErrIndexOutOfRange)
        ELSE [ti |-> ts, dbAlreadyExists |-> dbAlreadyExists,
              dbUpdated |-> TRUE, err |-> "nil", database |-> db]

\* GetLocationTimeIndex from the point where the data sources are loaded:
\* dbAlreadyExists is what the reading of the database left.
updateLocationDatabase(paths, db, dbAlreadyExists) ==
    LET ts == readLocationSeries(paths)
    IN  IF Len(ts) = 0
        THEN locationIndexFailure(db, ErrIndexOutOfRange)
        ELSE [ti |-> ts, dbAlreadyExists |-> dbAlreadyExists,
              dbUpdated |-> TRUE, err |-> "nil",
              database |-> writtenDatabase(ts, GetSha1ForPaths(paths))]

\* GetLocationTimeIndex on a database that holds a series.
readLocationDatabase(paths, db) ==
    IF ~db.checksumOk
    THEN locationIndexFailure(db, ErrLocationTimeIndexChecksumFail)
    ELSE IF ~paths.given \/ db.sourceSha1 = GetSha1ForPaths(paths)
    THEN [ti |-> gobDecode(db.series), dbAlreadyExists |-> TRUE,
          dbUpdated |-> FALSE, err |-> "nil", database |-> db]
    ELSE updateLocationDatabase(paths, db, TRUE)

\* The whole call, on the database file db; a panic is the err, and the
\* file is what the call left of it.
GetLocationTimeIndex(paths, db) ==
    IF db.state = "missing" /\ ~paths.given
    THEN locationIndexFailure(openedDatabase(db), ErrNoSourcesNoDatabase)
    ELSE IF db.state = "garbage"
    THEN locationIndexFailure(db, ErrDatabaseUnreadable)
    ELSE IF db.state = "series"
    THEN readLocationDatabase(paths, db)
    ELSE updateLocationDatabase(paths, openedDatabase(db), FALSE)

\* The data sources: no paths, or paths under which up to MaxSourceFiles
\* data files are found (none for a directory without any).
SourceFiles == {<<e>> : e \in SourceRecords}

SourcePaths ==
    {NoPaths} \cup
    UNION {{[given |-> TRUE, files |-> fs] : fs \in [1..n -> SourceFiles]} :
           n \in 0..MaxSourceFiles}

\* The files the call can find at the database path: none, an empty one,
\* one that is no stream, and one written for some sources, intact or with
\* a series that fails its checksum.
DatabaseFiles ==
    {NoDatabase, [NoDatabase EXCEPT !.state = "empty"],
     [NoDatabase EXCEPT !.state = "garbage"]}
    \cup {[writtenDatabase(readLocationSeries(p), GetSha1ForPaths(p))
              EXCEPT !.checksumOk = ok] :
             p \in {q \in SourcePaths : Len(readLocationSeries(q)) > 0},
             ok \in BOOLEAN}

InitIndex ==
    /\ locationTs = MainLocationTs
    /\ records = <<>>
    /\ imageTs = <<>>
    /\ unassignedRecords = <<>>
    /\ currentImagePosition = 0
    /\ nearestCityIndex = {}
    /\ locationMatcherFn = LocationMatchStrategyBestGuess
    /\ bufferedGroups = EmptyMap
    /\ returned = <<>>
    /\ lastErr = "nil"
    /\ matcherAtLoad = ""
    /\ probe = NoProbe
    /\ alignment = NoAlignment
    /\ reducer = NoReducer
    /\ reduceStep = NoReduceStep
    /\ database \in DatabaseFiles
    /\ indexCall = NoIndexCall
    /\ poolStep = NoPoolStep
    /\ currentGroup = EmptyMap
    /\ currentGroupKey = EmptyMap

CallGetLocationTimeIndex ==
    /\ \E paths \in SourcePaths :
           LET r == GetLocationTimeIndex(paths, database)
           IN  /\ database' = r.database
               /\ indexCall' =
                      [called |-> TRUE, paths |-> paths, before |-> database,
                       ti |-> r.ti, dbAlreadyExists |-> r.dbAlreadyExists,
                       dbUpdated |-> r.dbUpdated, err |-> r.err,
                       previous |->
                           [called |-> indexCall.called,
                            paths |-> indexCall.paths,
                            err |-> indexCall.err,
                            dbAlreadyExists |-> indexCall.dbAlreadyExists,
                            dbUpdated |-> indexCall.dbUpdated]]
    /\ UNCHANGED <<locationTs, imageTs, records, unassignedRecords,
                   currentImagePosition, nearestCityIndex, locationMatcherFn,
                   bufferedGroups, returned, lastErr, matcherAtLoad, probe,
                   alignment, reducer, reduceStep, poolStep, currentGroup,
                   currentGroupKey>>

NextIndex == CallGetLocationTimeIndex

SpecIndex == InitIndex /\ [][NextIndex]_vars

-----------------------------------------------------------------------------
(* The pool driven directly: images pushed one at a time in chronological
   order, and groups popped whenever the pool has one *)

LastPushedTime ==
    IF records = <<>> THEN 0 - 900 ELSE records[Len(records)].Timestamp

pushedRecord(cameraModel, place, timestamp) ==
    [Filepath |-> Len(records) + 1, Timestamp |-> timestamp,
     CameraModel |-> cameraModel, place |-> place, HasGeographic |-> TRUE]

cityKeyOfPlace(place) == <<Nearest(place).sourceName, Nearest(place).Id>>

InitPool ==
    /\ locationTs = MainLocationTs
    /\ records = <<>>
    /\ imageTs = <<>>
    /\ unassignedRecords = <<>>
    /\ currentImagePosition = 0
    /\ nearestCityIndex = {}
    /\ locationMatcherFn = LocationMatchStrategyBestGuess
    /\ bufferedGroups = EmptyMap
    /\ returned = <<>>
    /\ lastErr = "nil"
    /\ matcherAtLoad = ""
    /\ probe = NoProbe
    /\ alignment = NoAlignment
    /\ reducer = NoReducer
    /\ reduceStep = NoReduceStep
    /\ database = NoDatabase
    /\ indexCall = NoIndexCall
    /\ poolStep = NoPoolStep
    /\ currentGroup = EmptyMap
    /\ currentGroupKey = EmptyMap

\* iterativeGroupBuffers.pushImage of the record gr.
poolPush(nearestCityKey, gr) ==
    LET r == iterativeGroupBuffers_pushImage(bufferedGroups, nearestCityKey,
                                             gr)
    IN  /\ bufferedGroups' = r.groups
        /\ records' = Append(records, gr)
        /\ poolStep' = [op |-> "push", before |-> bufferedGroups,
                        cameraModel |-> gr.CameraModel,
                        nearestCityKey |-> nearestCityKey,
                        gr |-> gr.Filepath, timestamp |-> gr.Timestamp,
                        images |-> <<>>, panic |-> r.panic]

PoolPush ==
    /\ Len(records) < MaxPushes
    /\ ~poolStep.panic
    /\ \E cameraModel \in PoolCameras, place \in Places,
          timestamp \in Times :
           /\ timestamp >= LastPushedTime
           /\ poolPush(cityKeyOfPlace(place),
                       pushedRecord(cameraModel, place, timestamp))
    /\ UNCHANGED <<locationTs, imageTs, unassignedRecords,
                   currentImagePosition, nearestCityIndex, locationMatcherFn,
                   returned, lastErr, matcherAtLoad, probe, alignment,
                   reducer, reduceStep, database, indexCall, currentGroup,
                   currentGroupKey>>

\* What a pop that ended as pop leaves.
poolPopped(op, pop) ==
    /\ bufferedGroups' = pop.groups
    /\ poolStep' = [op |-> op, before |-> bufferedGroups,
                    cameraModel |-> pop.cameraModel,
                    nearestCityKey |-> pop.nearestCityKey,
                    gr |-> 0, timestamp |-> pop.timeKey,
                    images |-> pop.images, panic |-> pop.panic]

\* popFirstCompleteGroup, called as FindNext calls it: when
\* haveAnyCompleteGroups names a camera model.
PoolPopComplete ==
    /\ ~poolStep.panic
    /\ \E cameraModel \in haveAnyCompleteGroups(bufferedGroups) :
           cameraModel # ""
    /\ \E pop \in popFirstCompleteGroup(bufferedGroups) :
           poolPopped("popComplete", pop)
    /\ UNCHANGED <<locationTs, imageTs, records, unassignedRecords,
                   currentImagePosition, nearestCityIndex, locationMatcherFn,
                   returned, lastErr, matcherAtLoad, probe, alignment,
                   reducer, reduceStep, database, indexCall, currentGroup,
                   currentGroupKey>>

\* popFirstPartialGroup, called when no camera model has a complete group
\* and haveAnyPartialGroups names one.
PoolPopPartial ==
    /\ ~poolStep.panic
    /\ haveAnyCompleteGroups(bufferedGroups) = {""}
    /\ \E cameraModel \in haveAnyPartialGroups(bufferedGroups) :
           cameraModel # ""
    /\ \E pop \in popFirstPartialGroup(bufferedGroups) :
           poolPopped("popPartial", pop)
    /\ UNCHANGED <<locationTs, imageTs, records, unassignedRecords,
                   currentImagePosition, nearestCityIndex, locationMatcherFn,
                   returned, lastErr, matcherAtLoad, probe, alignment,
                   reducer, reduceStep, database, indexCall, currentGroup,
                   currentGroupKey>>

NextPool == PoolPush \/ PoolPopComplete \/ PoolPopPartial

SpecPool == InitPool /\ [][NextPool]_vars

-----------------------------------------------------------------------------
(* NewFindGroups called on any location series, the empty one included *)

NotConstructed == "not constructed"

\* NewFindGroups without its check of the location series.
NewFindGroups_AnyLocations(locationTsArg, imageTsArg) ==
    [panic |-> FALSE,
     fg |-> [locationTs |-> locationTsArg, imageTs |-> imageTsArg,
             unassignedRecords |-> <<>>, nearestCityIndex |-> {},
             bufferedGroups |-> EmptyMap,
             locationMatcherFn |-> LocationMatchStrategyBestGuess]]

NewFindGroups(locationTsArg, imageTsArg) ==
    IF Len(locationTsArg) = 0
    THEN [panic |-> TRUE, fg |-> <<>>]
    ELSE [panic |-> FALSE,
          fg |-> [locationTs |-> locationTsArg, imageTs |-> imageTsArg,
                  unassignedRecords |-> <<>>, nearestCityIndex |-> {},
                  bufferedGroups |-> EmptyMap,
                  locationMatcherFn |-> LocationMatchStrategyBestGuess]]

InitNew ==
    /\ locationTs \in LocationSeries \cup {<<>>}
    /\ \E n \in 0..MaxNewImages : records \in ImageRecords(n, {"m1"})
    /\ imageTs = Series(records)
    /\ unassignedRecords = <<>>
    /\ currentImagePosition = 0
    /\ nearestCityIndex = {}
    /\ locationMatcherFn = ""
    /\ bufferedGroups = EmptyMap
    /\ returned = <<>>
    /\ lastErr = NotConstructed
    /\ matcherAtLoad = ""
    /\ probe = NoProbe
    /\ alignment = NoAlignment
    /\ reducer = NoReducer
    /\ reduceStep = NoReduceStep
    /\ database = NoDatabase
    /\ indexCall = NoIndexCall
    /\ poolStep = NoPoolStep
    /\ currentGroup = EmptyMap
    /\ currentGroupKey = EmptyMap

CallNewFindGroups ==
    /\ lastErr = NotConstructed
    /\ LET r == NewFindGroups(locationTs, imageTs)
       IN  IF r.panic
           THEN /\ lastErr' = ErrPanic
                /\ UNCHANGED <<unassignedRecords, nearestCityIndex,
                               locationMatcherFn, bufferedGroups>>
           ELSE /\ lastErr' = "nil"
                /\ unassignedRecords' = r.fg.unassignedRecords
                /\ nearestCityIndex' = r.fg.nearestCityIndex
                /\ locationMatcherFn' = r.fg.locationMatcherFn
                /\ bufferedGroups' = r.fg.bufferedGroups
    /\ UNCHANGED <<locationTs, imageTs, records, currentImagePosition,
                   returned, matcherAtLoad, probe, alignment,
                   reducer, reduceStep, database, indexCall, poolStep,
                   currentGroup, currentGroupKey>>

NextNew == CallNewFindGroups

SpecNew == InitNew /\ [][NextNew]_vars

-----------------------------------------------------------------------------
(* getAlignedTime called directly, once and on its own result *)

AlignEpochs == (0 - MaxEpoch)..MaxEpoch

InitAlign ==
    /\ locationTs = MainLocationTs
    /\ records = <<>>
    /\ imageTs = <<>>
    /\ unassignedRecords = <<>>
    /\ currentImagePosition = 0
    /\ nearestCityIndex = {}
    /\ locationMatcherFn = LocationMatchStrategyBestGuess
    /\ bufferedGroups = EmptyMap
    /\ returned = <<>>
    /\ lastErr = "nil"
    /\ matcherAtLoad = ""
    /\ probe = NoProbe
    /\ alignment = NoAlignment
    /\ reducer = NoReducer
    /\ reduceStep = NoReduceStep
    /\ database = NoDatabase
    /\ indexCall = NoIndexCall
    /\ poolStep = NoPoolStep
    /\ currentGroup = EmptyMap
    /\ currentGroupKey = EmptyMap

CallGetAlignedTime ==
    /\ \E t \in AlignEpochs :
           alignment' = [called |-> TRUE, t |-> t,
                         aligned |-> getAlignedTime(t),
                         realigned |-> getAlignedTime(getAlignedTime(t))]
    /\ UNCHANGED <<locationTs, imageTs, records, unassignedRecords,
                   currentImagePosition, nearestCityIndex, locationMatcherFn,
                   bufferedGroups, returned, lastErr, matcherAtLoad, probe,
                   reducer, reduceStep, database, indexCall, poolStep,
                   currentGroup, currentGroupKey>>

NextAlign == CallGetAlignedTime

SpecAlign == InitAlign /\ [][NextAlign]_vars

-----------------------------------------------------------------------------
(* Vocabulary of the claims *)

RecordIds == 1..Len(records)

IsSkipped(id) ==
    \E i \in 1..Len(unassignedRecords) : unassignedRecords[i].Geographic = id

\* The number of places (group, position) at which record id was returned.
Occurrences(id) ==
    Cardinality({<<g, k>> \in (1..Len(returned)) \X (1..MaxImages + 1) :
                    k <= Len(returned[g].images) /\ returned[g].images[k] = id})

\* floor(ts / 600) * 600.
AlignDown(ts) == (ts \div 600) * 600

-----------------------------------------------------------------------------
(* Claims *)

\* C1: once FindNext has returned no_more_groups, every record that was not
\* skipped has been returned in exactly one group, exactly once.
C1_EachRecordInExactlyOneGroup ==
    lastErr = ErrNoMoreGroups =>
        \A id \in RecordIds : ~IsSkipped(id) => Occurrences(id) = 1

\* C2: in every returned group, complete or partial, every member's buffered
\* (post-smoothing) city key is the city key of the group's GroupKey.
C2_MembersHaveGroupCity ==
    \A g \in 1..Len(returned) :
        \A k \in 1..Len(returned[g].popped) :
            returned[g].popped[k].nearestCityKey = returned[g].NearestCityKey

\* C3: every returned group is non-empty and all of its members have the
\* camera model of its GroupKey.
C3_NonEmptySameCamera ==
    \A g \in 1..Len(returned) :
        /\ Len(returned[g].images) >= 1
        /\ \A k \in 1..Len(returned[g].images) :
               records[returned[g].images[k]].CameraModel
                   = returned[g].CameraModel

C3_Witness ==
    \E g \in 1..Len(returned) :
        /\ Len(returned[g].images) >= 2
        /\ \E id \in RecordIds :
               records[id].CameraModel # returned[g].CameraModel

\* C4: the members of every returned group are in ingestion order (record
\* ids are positions in the image series read entry by entry, item by item).
C4_MembersInIngestionOrder ==
    \A g \in 1..Len(returned) :
        \A j, k \in 1..Len(returned[g].images) :
            j < k => returned[g].images[j] < returned[g].images[k]

C4_Witness ==
    \E g \in 1..Len(returned) :
        /\ Len(returned[g].images) >= 3
        /\ \E k \in 1..(Len(returned[g].images) - 1) :
               returned[g].images[k] + 1 < returned[g].images[k + 1]

\* C5: the time_key of every returned group is 600-second aligned and is
\* the alignment of the timestamp of the group's first member.
C5_TimeKeyIsAlignedFirstTimestamp ==
    \A g \in 1..Len(returned) :
        /\ returned[g].TimeKey % 600 = 0
        /\ returned[g].TimeKey
               = AlignDown(records[returned[g].images[1]].Timestamp)

\* A complete group one of whose members inherited the time-key of an
\* earlier 10-minute bucket, followed by a partial group.
C5_Witness ==
    \E g, h \in 1..Len(returned) :
        /\ returned[g].kind = "complete"
        /\ \E k \in 1..Len(returned[g].images) :
               AlignDown(records[returned[g].images[k]].Timestamp)
                   # returned[g].TimeKey
        /\ returned[h].kind = "partial"

C7_NoMoreGroupsMeansDrained ==
    lastErr = ErrNoMoreGroups =>
        /\ bufferedGroups = EmptyMap
        /\ currentImagePosition = Len(imageTs)

\* The skip reason the record id is due under the matcher configured when
\* the images were read: "" when it is due none.
ExpectedReason(id) ==
    LET m == locationMatcher(matcherAtLoad, locationTs,
                             records[id].Timestamp)
    IN  IF ~records[id].HasGeographic /\ m.err # "nil"
        THEN SkipReasonNoNearLocationRecord
        ELSE IF Nearest(IF records[id].HasGeographic THEN records[id].place
                        ELSE m.te.place).err # "nil"
        THEN SkipReasonNoNearCity
        ELSE ""

UnassignedAsExpected ==
    \A id \in RecordIds :
        LET listed == {i \in 1..Len(unassignedRecords) :
                          unassignedRecords[i].Geographic = id}
        IN  /\ ExpectedReason(id) = "" => listed = {}
            /\ ExpectedReason(id) # "" =>
                   /\ Cardinality(listed) = 1
                   /\ \A i \in listed :
                          unassignedRecords[i].Reason = ExpectedReason(id)

NoSkippedMember ==
    \A g \in 1..Len(returned) :
        \A k \in 1..Len(returned[g].images) : ~IsSkipped(returned[g].images[k])

\* C8: once the image series has been read, unassigned_records lists exactly
\* the records with no geography that the configured matcher finds no location
\* for and the records the city lookup finds no city for, each once and with
\* that reason, up to no_more_groups and after it; and no listed record is
\* ever a member of a returned group.
C8_UnassignedExactlyTheSkipped ==
    /\ currentImagePosition = Len(imageTs) => UnassignedAsExpected
    /\ NoSkippedMember

C8_Witness ==
    /\ lastErr = ErrNoMoreGroups
    /\ returned # <<>>
    /\ \E i, j \in 1..Len(unassignedRecords) :
           /\ unassignedRecords[i].Reason = SkipReasonNoNearLocationRecord
           /\ unassignedRecords[j].Reason = SkipReasonNoNearCity

-----------------------------------------------------------------------------
(* Claims about the matchers, on the last direct call *)

\* The neighbours of the probed image time: the entries immediately before
\* and at the insertion position (the next one has a time >= the image's).
HasPrev == \E i \in 1..Len(locationTs) : locationTs[i].Time < probe.imageTime

HasNext == \E i \in 1..Len(locationTs) : locationTs[i].Time >= probe.imageTime

PrevTe ==
    locationTs[CHOOSE i \in 1..Len(locationTs) :
                  /\ locationTs[i].Time < probe.imageTime
                  /\ \A j \in 1..Len(locationTs) :
                         locationTs[j].Time < probe.imageTime
                             => locationTs[j].Time <= locationTs[i].Time]

NextTe ==
    locationTs[CHOOSE i \in 1..Len(locationTs) :
                  /\ locationTs[i].Time >= probe.imageTime
                  /\ \A j \in 1..Len(locationTs) :
                         locationTs[j].Time >= probe.imageTime
                             => locationTs[j].Time >= locationTs[i].Time]

PrevWithin == HasPrev /\ probe.imageTime - PrevTe.Time <= 600

NextWithin == HasNext /\ NextTe.Time - probe.imageTime <= 600

ExactMatch == HasNext /\ NextTe.Time = probe.imageTime

BestGuessProbed == probe.strategy = LocationMatchStrategyBestGuess

C10_InclusiveWindowBothSides ==
    (BestGuessProbed /\ ~ExactMatch) =>
        /\ (PrevWithin /\ ~NextWithin) =>
               (probe.err = "nil" /\ probe.te = PrevTe)
        /\ (NextWithin /\ ~PrevWithin) =>
               (probe.err = "nil" /\ probe.te = NextTe)
        /\ (probe.err = ErrNoNearLocationRecord)
               <=> (~PrevWithin /\ ~NextWithin)

\* The entry of the location series at the probed image time, if any.
ExactTe ==
    locationTs[CHOOSE i \in 1..Len(locationTs) :
                  locationTs[i].Time = probe.imageTime]

\* C11: in both strategies, when an entry of the location series has the
\* image's timestamp, that entry is returned whatever its neighbours are.
C11_ExactMatchReturned ==
    (probe.strategy # ""
     /\ \E i \in 1..Len(locationTs) : locationTs[i].Time = probe.imageTime)
        => (probe.err = "nil" /\ probe.te = ExactTe)

\* The sparse matcher returned the exact entry although an earlier entry
\* exists.
C11_Witness ==
    /\ probe.strategy = LocationMatchStrategySparseData
    /\ ExactMatch /\ HasPrev
    /\ probe.te = ExactTe

SparseProbed == probe.strategy = LocationMatchStrategySparseData

-----------------------------------------------------------------------------
(* Claims about alignment, on the last direct call *)

\* C13: for every epoch ts, negative ones included, align(ts) is
\* floor(ts / 600) * 600, so that align(ts) <= ts < align(ts) + 600.
C13_AlignIsFloor ==
    alignment.called =>
        /\ alignment.aligned = AlignDown(alignment.t)
        /\ alignment.aligned <= alignment.t
        /\ alignment.t < alignment.aligned + 600

\* C14: alignment is idempotent.
C14_AlignIdempotent ==
    alignment.called => alignment.realigned = alignment.aligned

C14_Witness ==
    /\ alignment.called
    /\ alignment.t < 0
    /\ alignment.aligned # alignment.t
    /\ alignment.realigned = alignment.aligned

-----------------------------------------------------------------------------
(* Claims about the engine, continued *)

\* C15: no internal assertion of the engine fires in a run driven through
\* FindNext (an assertion that fires is recovered by FindNext and handed back
\* as its err), and no buffer in the pool is ever empty.
C15_NoAssertionFires ==
    /\ lastErr # ErrPanic
    /\ \A m \in DOMAIN bufferedGroups : Len(bufferedGroups[m].images) > 0

\* The (GroupKey, members) pair of a returned group.
GroupOf(g) ==
    [TimeKey |-> g.TimeKey, NearestCityKey |-> g.NearestCityKey,
     CameraModel |-> g.CameraModel, images |-> g.images]

\* The records as they were handed to the engine (a record without
\* geography is given its matched location's coordinates while it is read).
InputRecords ==
    [i \in 1..Len(records) |->
        [records[i] EXCEPT !.place = IF records[i].HasGeographic THEN @
                                     ELSE NoPlace]]

\* A fresh engine on the image records recs, with the strategy the run was
\* read with.
FreshEngine(recs) ==
    [locationTs |-> locationTs, imageTs |-> Series(recs), records |-> recs,
     unassignedRecords |-> <<>>, currentImagePosition |-> 0,
     nearestCityIndex |-> {}, locationMatcherFn |-> matcherAtLoad,
     bufferedGroups |-> EmptyMap]

\* The groups of one run of FindNext from fg on, up to the first call that
\* returns no group; where the pool can elect among cameras, one fixed
\* election is taken.
RECURSIVE RunFrom(_)
RunFrom(fg) ==
    LET good == {o \in FindNextOutcomes(fg) : o.err = "nil"}
    IN  IF good = {} THEN <<>>
        ELSE LET o == CHOOSE x \in good : TRUE
             IN  <<GroupOf(o.group)>> \o RunFrom(o.fg)

\* The positions in the input of the records of camera model m.
IdsOf(m) ==
    SelectSeq([i \in 1..Len(records) |-> i],
              LAMBDA i : records[i].CameraModel = m)

\* The groups of a run on the records of camera model m alone, with the
\* members named by their positions in the whole input.
AloneGroups(m) ==
    LET ids == IdsOf(m)
        recs == [j \in 1..Len(ids) |->
                    [InputRecords[ids[j]] EXCEPT !.Filepath = j]]
        run == RunFrom(FreshEngine(recs))
    IN  [g \in 1..Len(run) |->
            [run[g] EXCEPT !.images =
                [k \in 1..Len(run[g].images) |-> ids[run[g].images[k]]]]]

\* The groups returned so far for camera model m, in order.
ReturnedFor(m) ==
    LET mine == SelectSeq(returned, LAMBDA g : g.CameraModel = m)
    IN  [g \in 1..Len(mine) |-> GroupOf(mine[g])]

\* C16: the groups emitted for a camera model up to no_more_groups are the
\* groups emitted, in the same order, by a run on that camera's records
\* alone: the records of other cameras do not affect them.
C16_CameraGroupsIndependent ==
    lastErr = ErrNoMoreGroups =>
        \A i \in 1..Len(records) :
            ReturnedFor(records[i].CameraModel)
                = AloneGroups(records[i].CameraModel)

\* C17: the (GroupKey, members) pairs returned up to no_more_groups are the
\* same, up to their order, whichever camera the pool elects at each call:
\* they are those of the run with one fixed election.
C17_ElectionOrderIrrelevant ==
    lastErr = ErrNoMoreGroups =>
        LET fixed == RunFrom(FreshEngine(InputRecords))
        IN  /\ Len(returned) = Len(fixed)
            /\ {GroupOf(returned[g]) : g \in 1..Len(returned)}
                   = {fixed[g] : g \in 1..Len(fixed)}

\* The city key the record id is registered and buffered under when it is
\* not skipped.
CityKeyOf(id) ==
    LET m == locationMatcher(matcherAtLoad, locationTs, records[id].Timestamp)
        c == Nearest(IF records[id].HasGeographic THEN records[id].place
                     ELSE m.te.place)
    IN  <<c.sourceName, c.Id>>

\* C18: from the return of a group on, the registry of city records holds
\* the group's city key; and once the image series has been read the
\* registry holds the city key of every record that was not skipped, so no
\* later call removes an entry.
C18_RegistryHoldsGroupCities ==
    /\ \A g \in 1..Len(returned) :
           returned[g].NearestCityKey \in nearestCityIndex
    /\ currentImagePosition = Len(imageTs) =>
           \A id \in RecordIds :
               ExpectedReason(id) = "" => CityKeyOf(id) \in nearestCityIndex

\* Groups of two different cities have been returned, up to no_more_groups.
C18_Witness ==
    /\ lastErr = ErrNoMoreGroups
    /\ \E g, h \in 1..Len(returned) :
           returned[g].NearestCityKey # returned[h].NearestCityKey

\* C19: NewFindGroups panics when the location series is empty, whatever
\* the images are, and otherwise constructs an engine with the best-guess
\* strategy, nothing buffered and nothing unassigned.
C19_NewFindGroupsNeedsLocations ==
    lastErr # NotConstructed =>
        IF locationTs = <<>>
        THEN lastErr = ErrPanic
        ELSE /\ lastErr # ErrPanic
             /\ locationMatcherFn = LocationMatchStrategyBestGuess

\* The constructor panicked on an empty location series although every
\* image carries its own geography.
C19_Witness ==
    /\ lastErr = ErrPanic
    /\ locationTs = <<>>
    /\ records # <<>>
    /\ \A i \in 1..Len(records) : records[i].HasGeographic

-----------------------------------------------------------------------------
(* Claims about Reduce *)

\* The number of places (camera, finished group, position) at which record
\* id was handed back by Reduce.
FinishedOccurrences(id) ==
    Cardinality(
        {<<m, g, k>> \in (DOMAIN reducer.finishedGroups)
                             \X (1..MaxImages + 1) \X (1..MaxImages + 1) :
            /\ g <= Len(reducer.finishedGroups[m])
            /\ k <= Len(reducer.finishedGroups[m][g].Records)
            /\ reducer.finishedGroups[m][g].Records[k] = id})

\* Reduce hands back what FindNext gave it: a record is in the finished
\* groups as often as it is in the groups FindNext returned.
ReduceKeepsReturnedRecords ==
    reducer.state = "done" =>
        \A id \in RecordIds : FinishedOccurrences(id) = Occurrences(id)

\* C20: when Reduce returns, every record that was not skipped, and no
\* other, is in exactly one finished group, exactly once: these are the
\* records of the groups FindNext returned, and the totals agree.
C20_ReducePreservesRecords ==
    reducer.state = "done" =>
        \A id \in RecordIds :
            /\ FinishedOccurrences(id) = Occurrences(id)
            /\ FinishedOccurrences(id) = IF IsSkipped(id) THEN 0 ELSE 1

-----------------------------------------------------------------------------
(* Claims about the passes of Reduce *)

\* The pass recorded in reduceStep is the last thing Reduce did, and it met
\* a group already tracked for the camera of the arriving group.
MetTracked ==
    /\ reduceStep.called
    /\ reducer.state = "running"
    /\ reduceStep.groupKey.CameraModel \in DOMAIN reduceStep.before.lastGroup

TrackedBefore == reduceStep.before.lastGroup[reduceStep.groupKey.CameraModel]

TrackedAfter == reducer.lastGroup[reduceStep.groupKey.CameraModel]

UtcDay(t) == t \div 86400

\* The condition under which the tracked group is emitted unmerged.
MustEmit ==
    \/ UtcDay(TrackedBefore.GroupKey.TimeKey)
           # UtcDay(reduceStep.groupKey.TimeKey)
    \/ Len(TrackedBefore.Records) > 20 /\ Len(reduceStep.records) > 20

\* The tracked group went to the end of the finished list of its camera,
\* and nothing else changed in the finished lists.
EmittedTracked ==
    LET m == reduceStep.groupKey.CameraModel
        old == IF m \in DOMAIN reduceStep.before.finishedGroups
               THEN reduceStep.before.finishedGroups[m] ELSE <<>>
    IN  /\ DOMAIN reducer.finishedGroups
               = DOMAIN reduceStep.before.finishedGroups \cup {m}
        /\ reducer.finishedGroups[m] = Append(old, TrackedBefore)
        /\ \A x \in DOMAIN reduceStep.before.finishedGroups \ {m} :
               reducer.finishedGroups[x] = reduceStep.before.finishedGroups[x]

\* The UTC days of the groups FindNext returned the records of cg in.
DaysOf(cg) ==
    LET ids == {cg.Records[k] : k \in 1..Len(cg.Records)}
    IN  {UtcDay(returned[i].TimeKey) :
            i \in {j \in 1..Len(returned) :
                      \E k \in 1..Len(returned[j].images) :
                          returned[j].images[k] \in ids}}

CollectedGroups ==
    {reducer.lastGroup[m] : m \in DOMAIN reducer.lastGroup}
    \cup UNION {{reducer.finishedGroups[m][i] :
                    i \in 1..Len(reducer.finishedGroups[m])} :
                m \in DOMAIN reducer.finishedGroups}

\* C21: a group arriving for a camera with a tracked group makes Reduce
\* emit the tracked group unmerged and track the new one exactly when the
\* two are on different UTC days or both have more than 20 records (the
\* tracked one at its accumulated size); otherwise the two are merged and
\* nothing is emitted. No collected group holds records of two UTC days.
C21_EmitOrMerge ==
    /\ MetTracked =>
           IF MustEmit
           THEN /\ EmittedTracked
                /\ TrackedAfter.GroupKey = reduceStep.groupKey
                /\ TrackedAfter.Records = reduceStep.records
                /\ reducer.merged = reduceStep.before.merged
           ELSE /\ reducer.finishedGroups = reduceStep.before.finishedGroups
                /\ Len(TrackedAfter.Records)
                       = Len(TrackedBefore.Records) + Len(reduceStep.records)
                /\ reducer.merged = reduceStep.before.merged + 1
    /\ \A cg \in CollectedGroups : Cardinality(DaysOf(cg)) = 1

\* The tracked group had grown to 21 records by a merge, a group of 21
\* records of the same day arrived, and the tracked group was emitted; and
\* before that a group of exactly 20 records was merged as a trivial one.
C21_Witness ==
    /\ MetTracked
    /\ reduceStep.before.merged >= 1
    /\ Len(TrackedBefore.Records) = 21
    /\ Len(reduceStep.records) = 21
    /\ UtcDay(TrackedBefore.GroupKey.TimeKey)
           = UtcDay(reduceStep.groupKey.TimeKey)
    /\ EmittedTracked
    /\ \E i \in 1..Len(returned) : Len(returned[i].images) = 20

\* C22: a merge leaves the records of the tracked group followed by those of
\* the new group, under the key of the tracked group when that group had
\* more than 20 records and under the key of the new group otherwise.
C22_MergedRecordsAndKey ==
    (MetTracked /\ ~MustEmit) =>
        /\ TrackedAfter.Records = TrackedBefore.Records \o reduceStep.records
        /\ TrackedAfter.GroupKey =
               IF Len(TrackedBefore.Records) > 20
               THEN TrackedBefore.GroupKey
               ELSE reduceStep.groupKey

\* Both merges have happened to one camera: a trivial group was prepended
\* to a group that made the result large, and a trivial group of another
\* key was then appended to it, the key staying.
C22_Witness ==
    /\ MetTracked /\ ~MustEmit
    /\ reduceStep.before.merged >= 1
    /\ Len(TrackedBefore.Records) > 20
    /\ reduceStep.groupKey # TrackedBefore.GroupKey
    /\ TrackedAfter.GroupKey = TrackedBefore.GroupKey

-----------------------------------------------------------------------------
(* Claims about GetLocationTimeIndex *)

MissingOrEmpty == indexCall.before.state \in {"missing", "empty"}

ValidDatabase ==
    indexCall.before.state = "series" /\ indexCall.before.checksumOk

\* The call returned the series of its sources and left it in the database
\* under the hash of the sources.
BuiltAndWritten ==
    /\ indexCall.err = "nil"
    /\ indexCall.ti = readLocationSeries(indexCall.paths)
    /\ database.state = "series"
    /\ database.checksumOk
    /\ gobDecode(database.series) = indexCall.ti
    /\ database.sourceSha1 = GetSha1ForPaths(indexCall.paths)

\* The call returned the stored series and left the database alone.
ReturnedStored ==
    /\ indexCall.err = "nil"
    /\ indexCall.ti = gobDecode(indexCall.before.series)
    /\ database = indexCall.before
    /\ indexCall.dbAlreadyExists
    /\ ~indexCall.dbUpdated

\* C23: the decision of GetLocationTimeIndex on the database and the
\* sources: nothing to read and no sources is fatal; nothing to read and
\* sources builds and writes (false, true); a valid database with sources of
\* the stored hash is returned unwritten (true, false); a valid database
\* with sources of another hash is rebuilt and rewritten (true, true); an
\* invalid stored checksum is fatal.
C23_IndexDecision ==
    indexCall.called =>
        /\ (MissingOrEmpty /\ ~indexCall.paths.given) => indexCall.err # "nil"
        /\ (MissingOrEmpty /\ indexCall.paths.given) =>
               /\ BuiltAndWritten
               /\ ~indexCall.dbAlreadyExists
               /\ indexCall.dbUpdated
        /\ (/\ ValidDatabase
            /\ indexCall.paths.given
            /\ GetSha1ForPaths(indexCall.paths) = indexCall.before.sourceSha1)
               => ReturnedStored
        /\ (/\ ValidDatabase
            /\ indexCall.paths.given
            /\ GetSha1ForPaths(indexCall.paths) # indexCall.before.sourceSha1)
               => /\ BuiltAndWritten
                  /\ indexCall.dbAlreadyExists
                  /\ indexCall.dbUpdated
        /\ (indexCall.before.state = "series" /\ ~indexCall.before.checksumOk)
               => indexCall.err # "nil"

\* C24: a call without sources that follows a successful call with sources
\* returns the series of those sources, the ones the database was last
\* written from, with (true, false), and leaves the database as it was.
C24_WriteReadRoundTrip ==
    (/\ indexCall.called
     /\ ~indexCall.paths.given
     /\ indexCall.previous.called
     /\ indexCall.previous.paths.given
     /\ indexCall.previous.err = "nil") =>
        /\ indexCall.err = "nil"
        /\ indexCall.ti = readLocationSeries(indexCall.previous.paths)
        /\ indexCall.dbAlreadyExists
        /\ ~indexCall.dbUpdated
        /\ database = indexCall.before

\* The read-back follows an update that replaced the earlier contents of
\* the database with a series of two entries.
C24_Witness ==
    /\ indexCall.called
    /\ ~indexCall.paths.given
    /\ indexCall.previous.called
    /\ indexCall.previous.paths.given
    /\ indexCall.previous.err = "nil"
    /\ indexCall.previous.dbAlreadyExists
    /\ indexCall.previous.dbUpdated
    /\ Len(indexCall.ti) = 2
    /\ indexCall.err = "nil"

-----------------------------------------------------------------------------
(* Claims about the buffers of the pool *)

Effective(bg, i) == bg.images[i].effectiveTimekey

EffectiveKeys(bg) == {Effective(bg, i) : i \in 1..Len(bg.images)}

\* C26: the effective time-keys of a buffer never decrease from front to
\* back; haveCompleteGroup is true exactly when the buffer holds two or more
\* distinct effective time-keys; and exactly one of haveCompleteGroup and
\* havePartialGroup is true of every buffer in the pool.
C26_CompleteIffTwoTimeKeys ==
    \A m \in DOMAIN bufferedGroups :
        LET bg == bufferedGroups[m]
        IN  /\ \A i \in 1..(Len(bg.images) - 1) :
                   Effective(bg, i) <= Effective(bg, i + 1)
            /\ haveCompleteGroup(bg) <=> Cardinality(EffectiveKeys(bg)) >= 2
            /\ haveCompleteGroup(bg) # havePartialGroup(bg)

\* One buffer holds two entries of one time-key (the second inherited it
\* from an earlier bucket) and has a partial group only, while another
\* holds two time-keys and has a complete one.
C26_Witness ==
    \E m, n \in DOMAIN bufferedGroups :
        /\ Len(bufferedGroups[m].images) >= 2
        /\ Cardinality(EffectiveKeys(bufferedGroups[m])) = 1
        /\ Effective(bufferedGroups[m], 2)
               # getAlignedEpoch(
                     records[bufferedGroups[m].images[2].gr].Timestamp)
        /\ havePartialGroup(bufferedGroups[m])
        /\ haveCompleteGroup(bufferedGroups[n])

\* The last pool call was a push that returned.
Pushed == poolStep.op = "push" /\ ~poolStep.panic

PushedInto == bufferedGroups[poolStep.cameraModel]

BufferBefore == poolStep.before[poolStep.cameraModel]

\* C27: a pushed record gets the aligned timestamp as its effective
\* time-key when its camera has no buffer (the new buffer holds it alone,
\* under that key at both ends) or when the last buffered entry has
\* another city, and the buffer's last_time_key when the last entry has its
\* city; last_time_key is that effective time-key after the push.
C27_EffectiveTimeKeyOfPush ==
    Pushed =>
        LET e == Effective(PushedInto, Len(PushedInto.images))
        IN  /\ PushedInto.lastTimeKey = e
            /\ IF poolStep.cameraModel \notin DOMAIN poolStep.before
               THEN /\ Len(PushedInto.images) = 1
                    /\ e = AlignDown(poolStep.timestamp)
                    /\ PushedInto.firstTimeKey = e
               ELSE IF BufferBefore.images[Len(BufferBefore.images)]
                           .nearestCityKey = poolStep.nearestCityKey
               THEN e = BufferBefore.lastTimeKey
               ELSE e = AlignDown(poolStep.timestamp)

\* The buffer bg is smooth: for entries j < k < last of one effective
\* time-key, the city of entry k is that of j and last when these two agree.
Smooth(bg) ==
    LET last == Len(bg.images)
    IN  \A j, k \in 1..last :
            (/\ j < k /\ k < last
             /\ Effective(bg, j) = Effective(bg, last)
             /\ Effective(bg, k) = Effective(bg, last)
             /\ bg.images[j].nearestCityKey = bg.images[last].nearestCityKey)
                => bg.images[k].nearestCityKey = bg.images[last].nearestCityKey

\* C28: after a push the buffer pushed into is smooth: no entry between two
\* entries of one city and one effective time-key, the last being the
\* pushed one, has another city (so cities X, Y, X pushed into one
\* time-key leave X, X, X).
C28_SmoothAfterPush == Pushed => Smooth(PushedInto)

\* The keys "<city>,<effective time-key>" among the entries of bg.
KeysOf(bg) == {LocationTimekey(bg.images[i]) : i \in 1..Len(bg.images)}

\* The index, counted from 0, of the first entry of bg that carries key.
FirstIndexOf(bg, key) ==
    (CHOOSE i \in 1..Len(bg.images) :
        /\ LocationTimekey(bg.images[i]) = key
        /\ \A j \in 1..(i - 1) : LocationTimekey(bg.images[j]) # key) - 1

\* C29: location_index of every buffer maps exactly the keys
\* "<city>,<effective time-key>" of the buffer's entries, each to the index
\* of the first entry that carries it.
C29_IndexHoldsFirstOccurrence ==
    \A m \in DOMAIN bufferedGroups :
        LET bg == bufferedGroups[m]
        IN  /\ DOMAIN bg.locationIndex = KeysOf(bg)
            /\ \A key \in KeysOf(bg) :
                   bg.locationIndex[key] = FirstIndexOf(bg, key)

\* The entries the buffer pushed into had before the push (none when the
\* push created it).
EntriesBefore ==
    IF poolStep.cameraModel \in DOMAIN poolStep.before
    THEN BufferBefore.images ELSE <<>>

\* C30: a push appends exactly one entry, the pushed record with the pushed
\* city; it leaves first_time_key, and the effective time-key, record and
\* position of every existing entry; it changes the city of an existing
\* entry only to the pushed city and only when the entry has the pushed
\* entry's effective time-key; and it leaves the buffers of all other
\* cameras as they were.
C30_PushFrame ==
    Pushed =>
        LET n == Len(EntriesBefore)
            pushed == PushedInto.images[n + 1]
        IN  /\ Len(PushedInto.images) = n + 1
            /\ pushed.gr = poolStep.gr
            /\ pushed.nearestCityKey = poolStep.nearestCityKey
            /\ n > 0 => PushedInto.firstTimeKey = BufferBefore.firstTimeKey
            /\ \A i \in 1..n :
                   /\ PushedInto.images[i].gr = EntriesBefore[i].gr
                   /\ Effective(PushedInto, i)
                          = EntriesBefore[i].effectiveTimekey
                   /\ \/ PushedInto.images[i].nearestCityKey
                             = EntriesBefore[i].nearestCityKey
                      \/ /\ PushedInto.images[i].nearestCityKey
                                = poolStep.nearestCityKey
                         /\ Effective(PushedInto, i) = pushed.effectiveTimekey
            /\ DOMAIN bufferedGroups
                   = DOMAIN poolStep.before \cup {poolStep.cameraModel}
            /\ \A m \in DOMAIN poolStep.before \ {poolStep.cameraModel} :
                   bufferedGroups[m] = poolStep.before[m]

\* A push that smoothed: it changed the city of an entry that was there.
C30_Witness ==
    /\ Pushed
    /\ \E i \in 1..Len(EntriesBefore) :
           PushedInto.images[i].nearestCityKey
               # EntriesBefore[i].nearestCityKey

-----------------------------------------------------------------------------
(* Popping from the pool *)

PoppedComplete == poolStep.op = "popComplete" /\ ~poolStep.panic

PoppedPartial == poolStep.op = "popPartial" /\ ~poolStep.panic

\* The elected buffer as it was before the pop.
ElectedBefore == poolStep.before[poolStep.cameraModel]

SameCityAndTimeKey(a, b) ==
    /\ a.nearestCityKey = b.nearestCityKey
    /\ a.effectiveTimekey = b.effectiveTimekey

\* The length of the longest prefix of images whose entries all have the
\* city and the effective time-key of the first one.
MaximalPrefix(images) ==
    CHOOSE n \in 1..Len(images) :
        /\ \A i \in 1..n : SameCityAndTimeKey(images[i], images[1])
        /\ n < Len(images) => ~SameCityAndTimeKey(images[n + 1], images[1])

\* C31: popCompleteGroup returns the city of the first entry and the records
\* of the maximal prefix of entries that have the first entry's city and
\* effective time-key, removes those entries and no others, keeps the rest in
\* order and sets firstTimeKey to the effective time-key of the new first
\* entry; popFirstCompleteGroup reports the firstTimeKey from before the pop.
C31_PopCompleteTakesMaximalPrefix ==
    PoppedComplete =>
        LET before == ElectedBefore.images
            n == MaximalPrefix(before)
        IN  /\ poolStep.nearestCityKey = before[1].nearestCityKey
            /\ poolStep.images = [i \in 1..n |-> before[i].gr]
            /\ poolStep.cameraModel \in DOMAIN bufferedGroups
            /\ LET after == bufferedGroups[poolStep.cameraModel]
               IN  /\ after.images = SubSeq(before, n + 1, Len(before))
                   /\ after.images # <<>>
                   /\ after.firstTimeKey = after.images[1].effectiveTimekey
            /\ poolStep.timestamp = ElectedBefore.firstTimeKey

\* A complete group was popped from a buffer whose later entries share the
\* first entry's time-key but not its city, and more than one entry was left.
C31_Witness ==
    /\ PoppedComplete
    /\ Len(ElectedBefore.images) >= 3
    /\ MaximalPrefix(ElectedBefore.images) < Len(ElectedBefore.images) - 1
    /\ \E i \in 2..Len(ElectedBefore.images) :
           /\ ElectedBefore.images[i].effectiveTimekey
                  = ElectedBefore.images[1].effectiveTimekey
           /\ ElectedBefore.images[i].nearestCityKey
                  # ElectedBefore.images[1].nearestCityKey

\* The buffers of the cameras other than the elected one are as they were.
OthersUntouched ==
    \A m \in DOMAIN poolStep.before \ {poolStep.cameraModel} :
        m \in DOMAIN bufferedGroups /\ bufferedGroups[m] = poolStep.before[m]

-----------------------------------------------------------------------------
(* The image cursor *)

\* The engine of this run after ingesting the first n entries of the image
\* series and nothing else.
Ingested(n) ==
    loadImages([FreshEngine(records) EXCEPT !.imageTs = SubSeq(imageTs, 1, n)])

CompleteAfter(n) == CompleteModels(Ingested(n).fg.bufferedGroups) # {}

\* The first entry whose ingestion leaves some buffer with a complete group.
EarliestComplete ==
    CHOOSE n \in 1..Len(imageTs) :
        CompleteAfter(n) /\ \A k \in 1..(n - 1) : ~CompleteAfter(k)

\* The entry of the image series that holds record id.
EntryOf(id) ==
    CHOOSE e \in 1..Len(imageTs) :
        \E k \in 1..Len(imageTs[e].Items) : imageTs[e].Items[k] = id

\* The records that have been pushed to a buffer or put on
\* unassignedRecords.
IngestedRecords ==
    {id \in RecordIds :
        \/ IsSkipped(id)
        \/ \E g \in 1..Len(returned), k \in 1..MaxCursorImages + 1 :
               k <= Len(returned[g].images) /\ returned[g].images[k] = id
        \/ \E m \in DOMAIN bufferedGroups,
              k \in 1..MaxCursorImages + 1 :
               /\ k <= Len(bufferedGroups[m].images)
               /\ bufferedGroups[m].images[k].gr = id}

-----------------------------------------------------------------------------
(* Attached locations *)

\* The record id has been read by getCurrentPositionImages.
WasRead(id) == EntryOf(id) <= currentImagePosition

\* The record id carries coordinates after it was read: its own, or those of
\* the location the matcher found for it.
CarriesLocation(id) == WasRead(id) /\ records[id].place # NoPlace

\* C34: a record to which FindNext attached a matched location has
\* HasGeographic true, and so has every member of a returned group.
C34_AttachedRecordHasGeographic ==
    /\ \A id \in RecordIds :
           CarriesLocation(id) => records[id].HasGeographic
    /\ \A g \in 1..Len(returned) :
           \A k \in 1..Len(returned[g].images) :
               records[returned[g].images[k]].HasGeographic

-----------------------------------------------------------------------------
(* Groups of one camera, one after the other *)

\* The returned groups that have record id as a member.
GroupsWith(id) ==
    {g \in 1..Len(returned) :
        \E k \in 1..Len(returned[g].images) : returned[g].images[k] = id}

\* Records i and j are of one camera, neither is skipped, and no record of
\* that camera between them is kept.
ConsecutiveKept(i, j) ==
    /\ i < j
    /\ records[i].CameraModel = records[j].CameraModel
    /\ ExpectedReason(i) = "" /\ ExpectedReason(j) = ""
    /\ \A k \in (i + 1)..(j - 1) :
           records[k].CameraModel = records[i].CameraModel
               => ExpectedReason(k) # ""

\* Groups g and h were returned for one camera, h after g, with no group of
\* that camera between them.
ConsecutiveGroups(g, h) ==
    /\ g < h
    /\ returned[g].CameraModel = returned[h].CameraModel
    /\ \A f \in (g + 1)..(h - 1) :
           returned[f].CameraModel # returned[g].CameraModel

\* C35: consecutive kept records of one camera that resolve to the same city
\* are returned in the same group, whatever their timestamps; and two groups
\* returned one after the other for one camera have different city keys.
C35_SameCityStaysTogether ==
    /\ \A i, j \in RecordIds :
           /\ ConsecutiveKept(i, j)
           /\ CityKeyOf(i) = CityKeyOf(j)
           /\ GroupsWith(i) # {} /\ GroupsWith(j) # {}
           => GroupsWith(i) = GroupsWith(j)
    /\ \A g, h \in 1..Len(returned) :
           ConsecutiveGroups(g, h)
               => returned[g].NearestCityKey # returned[h].NearestCityKey

\* Two records of one camera and one city, taken in different 10-minute
\* buckets, were returned in one group, and a group of another city followed
\* for that camera.
C35_Witness ==
    /\ \E i, j \in RecordIds :
           /\ ConsecutiveKept(i, j)
           /\ CityKeyOf(i) = CityKeyOf(j)
           /\ getGeographicRecordTimeKey(records[i])
                  # getGeographicRecordTimeKey(records[j])
           /\ GroupsWith(i) # {} /\ GroupsWith(i) = GroupsWith(j)
    /\ \E g, h \in 1..Len(returned) : ConsecutiveGroups(g, h)

\* The GroupKey FindNext returned with group g.
GroupKeyOf(g) ==
    [TimeKey |-> returned[g].TimeKey,
     NearestCityKey |-> returned[g].NearestCityKey,
     CameraModel |-> returned[g].CameraModel]

\* C36: over one run no two groups returned by FindNext have equal
\* GroupKeys.
C36_GroupKeysDistinct ==
    \A g, h \in 1..Len(returned) : g # h => GroupKeyOf(g) # GroupKeyOf(h)

\* The members of the groups gs, one list after the other.
RECURSIVE Members(_)
Members(gs) ==
    IF gs = <<>> THEN <<>> ELSE gs[1].images \o Members(Tail(gs))

\* The records of camera model m that are due no skip, in ingestion order.
KeptOf(m) ==
    SelectSeq([i \in 1..Len(records) |-> i],
              LAMBDA i : records[i].CameraModel = m /\ ExpectedReason(i) = "")

CameraModels == {records[i].CameraModel : i \in 1..Len(records)}

\* The members returned so far for camera m are the first kept records of m,
\* in ingestion order.
ReturnedInOrder(m) ==
    LET members == Members(ReturnedFor(m))
    IN  /\ Len(members) <= Len(KeptOf(m))
        /\ members = SubSeq(KeptOf(m), 1, Len(members))

TimeKeysNonDecreasing(m) ==
    \A g, h \in 1..Len(ReturnedFor(m)) :
        g < h => ReturnedFor(m)[g].TimeKey <= ReturnedFor(m)[h].TimeKey

\* C38: for each camera the groups arrive in chronological order: the
\* members of its groups, in the order the groups were returned, are its kept
\* records in ingestion order (all of them once the run has ended with
\* no_more_groups), and the groups' time-keys never decrease.
C38_CameraGroupsChronological ==
    \A m \in CameraModels :
        /\ currentImagePosition = Len(imageTs) => ReturnedInOrder(m)
        /\ TimeKeysNonDecreasing(m)
        /\ lastErr = ErrNoMoreGroups => Members(ReturnedFor(m)) = KeptOf(m)

-----------------------------------------------------------------------------
(* The unbuffered FindNext *)

\* C37: in the unbuffered FindNext every item of every TimeEntry ends up in
\* exactly one returned group or on unassignedRecords: once the run has ended
\* with no_more_groups, each record is either a member of one group, once, or
\* listed as unassigned, and the items that follow a group boundary within
\* their entry are among them.
C37_EveryItemProcessed ==
    lastErr = ErrNoMoreGroups =>
        \A id \in RecordIds :
            \/ Occurrences(id) = 1 /\ ~IsSkipped(id)
            \/ Occurrences(id) = 0 /\ IsSkipped(id)

-----------------------------------------------------------------------------
(* The result of Reduce *)

\* Two finished groups that may stand next to each other: on different UTC
\* days, or both with more than 20 records.
MayBeNeighbours(a, b) ==
    \/ UtcDay(a.GroupKey.TimeKey) # UtcDay(b.GroupKey.TimeKey)
    \/ Len(a.Records) > 20 /\ Len(b.Records) > 20

\* C39: in the result of Reduce any two consecutive finished groups of one
\* camera are on different UTC calendar days or both hold more than 20
\* records; the same holds between the last finished group and the group
\* still tracked for the camera while Reduce runs.
C39_NoTrivialGroupNextToSameDay ==
    /\ \A m \in DOMAIN reducer.finishedGroups :
           \A i \in 1..(Len(reducer.finishedGroups[m]) - 1) :
               MayBeNeighbours(reducer.finishedGroups[m][i],
                               reducer.finishedGroups[m][i + 1])
    /\ reducer.state = "running" =>
           \A m \in DOMAIN reducer.finishedGroups
                      \cap DOMAIN reducer.lastGroup :
               MayBeNeighbours(
                   reducer.finishedGroups[m][Len(reducer.finishedGroups[m])],
                   reducer.lastGroup[m])

\* Reduce has returned after at least one merge, and for one camera the
\* result holds two consecutive groups of the same day (both large).
C39_Witness ==
    /\ reducer.state = "done"
    /\ reducer.merged >= 1
    /\ \E m \in DOMAIN reducer.finishedGroups :
           /\ Len(reducer.finishedGroups[m]) >= 2
           /\ \E i \in 1..(Len(reducer.finishedGroups[m]) - 1) :
                  UtcDay(reducer.finishedGroups[m][i].GroupKey.TimeKey)
                      = UtcDay(reducer.finishedGroups[m][i + 1].GroupKey.TimeKey)

====
